---- MODULE Spec2Model ----
(***************************************************************************)
(* Flash report pipeline (Flash_Report.py): schema validation of the input *)
(* workbooks, the days-of-reporting lookup, the five filter gates, the     *)
(* per-region classification, the reconciliation columns, the report       *)
(* builder and the per-partner reports with their rebate summary rows.     *)
(*                                                                         *)
(* Data frames are sets of rows; every row carries its INVOICE_NUMBER, so  *)
(* two rows never collapse.  pd.concat is a tagged union, so a row that is *)
(* selected by both operands is counted twice, as pandas does.  Amounts    *)
(* are integer cents, rates are integer per-mille.                         *)
(***************************************************************************)
EXTENDS Integers, Sequences, FiniteSets, TLC

\* pandas' missing marker (NaN) in a text-valued cell
NA == "NaN"

Regions == {"US", "CA"}

(***************************************************************************)
(* Bounds of the input space.                                              *)
(***************************************************************************)
\* largest number of rows of the main data file
MaxRows == 2
\* amounts of the reconciliation check range over -MaxAmt..MaxAmt
MaxAmt == 3

(***************************************************************************)
(* Text helpers: the strings of the model come from a fixed vocabulary, so *)
(* concatenation and substring tests are tables over it.                   *)
(***************************************************************************)
BUs == {"Compute", "Storage", "Services"}
BUTypes == {"Standard", "Focus", "Attach", "Services"}

\* BU.fillna('') + BU_Type.fillna('')
StrConcat(a, b) ==
    CASE a = "" -> b
      [] b = "" -> a
      [] a = "Compute"  /\ b = "Standard" -> "ComputeStandard"
      [] a = "Compute"  /\ b = "Focus"    -> "ComputeFocus"
      [] a = "Compute"  /\ b = "Attach"   -> "ComputeAttach"
      [] a = "Storage"  /\ b = "Standard" -> "StorageStandard"
      [] a = "Storage"  /\ b = "Focus"    -> "StorageFocus"
      [] a = "Storage"  /\ b = "Attach"   -> "StorageAttach"
      [] a = "Services" /\ b = "Standard" -> "ServicesStandard"
      [] a = "Services" /\ b = "Focus"    -> "ServicesFocus"
      [] a = "Services" /\ b = "Attach"   -> "ServicesAttach"
      [] a = "Compute"  /\ b = "Services" -> "ComputeServices"
      [] a = "Storage"  /\ b = "Services" -> "StorageServices"
      [] a = "Services" /\ b = "Services" -> "ServicesServices"

\* Scheme_Name.str.contains('Compute|Storage', case=False, na=False)
ContainsComputeOrStorage(s) ==
    s \in {StrConcat(a, b) : a \in {"Compute", "Storage"}, b \in BUTypes \cup {""}}

\* Scheme_Name.str.contains('Services', case=False, na=False)
ContainsServices(s) ==
    s \in {StrConcat("Services", b) : b \in BUTypes \cup {""}}
            \cup {StrConcat(a, "Services") : a \in BUs}

\* str(portfolio_mapping_1).startswith('Operational Service')
StartsWithOperationalService(s) == s \in {"Operational Service Plus"}

\* str(portfolio_mapping_2).startswith('Complete Care (excl. MS & GL)')
StartsWithCompleteCare(s) == s \in {"Complete Care (excl. MS & GL) 24x7"}

(***************************************************************************)
(* The main data file: rows of the Web Intelligence export.                *)
(***************************************************************************)
\* the two distributor partners the script names (Attach/Annuity sheets)
D1 == 1000939629
D2 == 1001810197

\* the ids of the model that stand for a cell whose text is not a number
\* (such as 'TBD-0042'): ids are kept as integers throughout
TextIds == {1009999998}

BaseRow ==
    [INVOICE_NUMBER |-> 1,
     SRC_SYS_KY |-> 2032, CROSS_SOURCED |-> "N", BDE_FLAG |-> "N",
     MSP_FLAG |-> "N", REPORTING_TYPE |-> "DSO", PRODUCT_LINE |-> "C1",
     RESELLER_PARTY_ID |-> 600, DISTRIBUTOR_PARTY_ID |-> D1,
     FISCAL_MONTH |-> 202511, DATA_TYPE |-> "DS", BACKEND_DEAL_1 |-> NA,
     NDP_TOTAL_USD |-> 100, UPFRONT_DISCOUNT_AMT_USD |-> 10,
     BACKEND_DISCOUNT_AMT_USD |-> 20, NET_TOTAL_USD |-> 70,
     NDP_TOTAL_LC |-> 130, UPFRONT_DISCOUNT_AMT_LC |-> 13,
     BACKEND_DISCOUNT_AMT_LC |-> 26, NET_TOTAL_LC |-> 91,
     Point_Next_Portfolio_Mapping_1 |-> NA,
     Point_Next_Portfolio_Mapping_2 |-> NA]

RcsRow == [BaseRow EXCEPT !.REPORTING_TYPE = "RCS", !.NET_TOTAL_USD = 7,
                          !.NET_TOTAL_LC = 9]

\* the rows a main data file is made of: the base row and rows that differ
\* from it in one respect (two for the side-channel and Services rows)
RowVariants ==
    << BaseRow,
       [BaseRow EXCEPT !.SRC_SYS_KY = 1000],
       [BaseRow EXCEPT !.SRC_SYS_KY = 2866],
       [BaseRow EXCEPT !.CROSS_SOURCED = "Y"],
       [BaseRow EXCEPT !.BDE_FLAG = "Y"],
       [BaseRow EXCEPT !.BDE_FLAG = NA],
       [BaseRow EXCEPT !.MSP_FLAG = "T"],
       RcsRow,
       [RcsRow EXCEPT !.SRC_SYS_KY = 1000],
       [RcsRow EXCEPT !.CROSS_SOURCED = "Y"],
       [RcsRow EXCEPT !.BDE_FLAG = "Y"],
       [RcsRow EXCEPT !.MSP_FLAG = "T"],
       [RcsRow EXCEPT !.DISTRIBUTOR_PARTY_ID = D2],
       [BaseRow EXCEPT !.PRODUCT_LINE = "S1"],
       [BaseRow EXCEPT !.PRODUCT_LINE = "X1"],
       [BaseRow EXCEPT !.PRODUCT_LINE = "ZZ"],
       [BaseRow EXCEPT !.RESELLER_PARTY_ID = 601],
       [BaseRow EXCEPT !.RESELLER_PARTY_ID = 501],
       [BaseRow EXCEPT !.RESELLER_PARTY_ID = 502],
       [BaseRow EXCEPT !.DISTRIBUTOR_PARTY_ID = D2],
       [BaseRow EXCEPT !.DISTRIBUTOR_PARTY_ID = 1009999999],
       [BaseRow EXCEPT !.DISTRIBUTOR_PARTY_ID = 1009999998],
       [BaseRow EXCEPT !.FISCAL_MONTH = 202512],
       [BaseRow EXCEPT !.FISCAL_MONTH = 202508],
       [BaseRow EXCEPT !.FISCAL_MONTH = 202411],
       [BaseRow EXCEPT !.DATA_TYPE = "Orders"],
       [BaseRow EXCEPT !.BACKEND_DEAL_1 = "DEAL7"],
       [BaseRow EXCEPT !.NET_TOTAL_USD = 60, !.NET_TOTAL_LC = 80],
       [BaseRow EXCEPT !.PRODUCT_LINE = "S1",
                       !.Point_Next_Portfolio_Mapping_1 = "Operational Service Plus",
                       !.Point_Next_Portfolio_Mapping_2 = "Complete Care (excl. MS & GL) 24x7"],
       [BaseRow EXCEPT !.PRODUCT_LINE = "S1",
                       !.Point_Next_Portfolio_Mapping_1 = "Advisory",
                       !.Point_Next_Portfolio_Mapping_2 = "Tech Care"],
       [BaseRow EXCEPT !.PRODUCT_LINE = "S1",
                       !.Point_Next_Portfolio_Mapping_1 = "Operational Service Plus",
                       !.Point_Next_Portfolio_Mapping_2 = "Complete Care (excluding MS & GL) 24x7"],
       [BaseRow EXCEPT !.PRODUCT_LINE = "N3", !.DATA_TYPE = "Orders",
                       !.RESELLER_PARTY_ID = 502],
       [BaseRow EXCEPT !.PRODUCT_LINE = "C2"] >>

RowSpace ==
    {[RowVariants[i] EXCEPT !.INVOICE_NUMBER = i] : i \in 1..Len(RowVariants)}

(***************************************************************************)
(* Schema resolver: find_column_match and standardize_column_names.        *)
(***************************************************************************)
\* get_default_mappings()['main_file_mappings'], in dictionary order: the
\* model keeps the five canonical fields whose names resemble one another
\* (1st, 10th, 11th, 18th and 21st entry). A header of the model stands for
\* the file that has, besides the columns listed, the other nineteen fields
\* under their canonical names; none of those is within the cutoffs of a
\* name of the model.
MainFields ==
    <<"SRC_SYS_KY", "NDP_TOTAL_USD", "NET_TOTAL_USD", "NET_TOTAL_LC",
      "NDP_TOTAL_LC">>

Variants(target) ==
    CASE target = "SRC_SYS_KY"    -> <<"SRC_SYS_KY", "Src Sys Ky">>
      [] target = "NDP_TOTAL_USD" -> <<"NDP_TOTAL_USD", "Ndp Total Usd">>
      [] target = "NET_TOTAL_USD" -> <<"NET_TOTAL_USD", "Net Total Usd">>
      [] target = "NET_TOTAL_LC"  -> <<"NET_TOTAL_LC", "Net Total Lc">>
      [] target = "NDP_TOTAL_LC"  -> <<"NDP_TOTAL_LC", "Ndp Total Lc">>

\* 1000 * SequenceMatcher(None, x, word).ratio() for the header names of the
\* model (values below 500 are given as 0)
Ratio(x, word) ==
    CASE x = word -> 1000
      [] x = "NDP_TOTAL_LC"  /\ word = "NDP_TOTAL_USD" -> 800
      [] x = "NDP_TOTAL_LC"  /\ word = "NET_TOTAL_USD" -> 640
      [] x = "NDP_TOTAL_LC"  /\ word = "NET_TOTAL_LC"  -> 833
      [] x = "NDP_TOTAL_USD" /\ word = "NET_TOTAL_USD" -> 846
      [] x = "NDP_TOTAL_USD" /\ word = "NET_TOTAL_LC"  -> 640
      [] x = "NDP_TOTAL_USD" /\ word = "NDP_TOTAL_LC"  -> 800
      [] x = "NET_TOTAL_LC"  /\ word = "NDP_TOTAL_USD" -> 640
      [] x = "NET_TOTAL_LC"  /\ word = "NET_TOTAL_USD" -> 800
      [] x = "NET_TOTAL_LC"  /\ word = "NDP_TOTAL_LC"  -> 833
      [] x = "NET_TOTAL_US"  /\ word = "NDP_TOTAL_USD" -> 800
      [] x = "NET_TOTAL_US"  /\ word = "NET_TOTAL_USD" -> 960
      [] x = "NET_TOTAL_US"  /\ word = "NET_TOTAL_LC"  -> 833
      [] x = "NET_TOTAL_US"  /\ word = "NDP_TOTAL_LC"  -> 666
      [] x = "NET_TOTAL_US1" /\ word = "NDP_TOTAL_USD" -> 769
      [] x = "NET_TOTAL_US1" /\ word = "NET_TOTAL_USD" -> 923
      [] x = "NET_TOTAL_US1" /\ word = "NET_TOTAL_LC"  -> 800
      [] x = "NET_TOTAL_US1" /\ word = "NDP_TOTAL_LC"  -> 640
      [] x = "NET_TOTAL_US2" /\ word = "NDP_TOTAL_USD" -> 769
      [] x = "NET_TOTAL_US2" /\ word = "NET_TOTAL_USD" -> 923
      [] x = "NET_TOTAL_US2" /\ word = "NET_TOTAL_LC"  -> 800
      [] x = "NET_TOTAL_US2" /\ word = "NDP_TOTAL_LC"  -> 640
      [] x = "NET_TOTAL_USD" /\ word = "NDP_TOTAL_USD" -> 846
      [] x = "NET_TOTAL_USD" /\ word = "NET_TOTAL_LC"  -> 800
      [] x = "NET_TOTAL_USD" /\ word = "NDP_TOTAL_LC"  -> 640
      [] x = "Net Total Lc"  /\ word = "Ndp Total Usd" -> 640
      [] x = "Net Total Lc"  /\ word = "Net Total Usd" -> 800
      [] x = "Net Total Lc"  /\ word = "Ndp Total Lc"  -> 833
      [] x = "Net Total Usd" /\ word = "Ndp Total Usd" -> 846
      [] x = "Net Total Usd" /\ word = "Net Total Lc"  -> 800
      [] x = "Net Total Usd" /\ word = "Ndp Total Lc"  -> 640
      [] x = "SRC_SYS_KEY"   /\ word = "SRC_SYS_KY"    -> 952
      [] x = "Source Key"    /\ word = "Src Sys Ky"    -> 600
      [] OTHER -> 0

Range(seq) == {seq[i] : i \in DOMAIN seq}

\* position of a header name in Python's string order
StrRank(x) ==
    CASE x = "Comments"      -> 1
      [] x = "NDP_TOTAL_LC"  -> 2
      [] x = "NDP_TOTAL_USD" -> 3
      [] x = "NET_TOTAL_LC"  -> 4
      [] x = "NET_TOTAL_US"  -> 5
      [] x = "NET_TOTAL_US1" -> 6
      [] x = "NET_TOTAL_US2" -> 7
      [] x = "NET_TOTAL_USD" -> 8
      [] x = "Net Total Lc"  -> 9
      [] x = "Net Total Usd" -> 10
      [] x = "SRC_SYS_KEY"   -> 11
      [] x = "SRC_SYS_KY"    -> 12
      [] x = "Source Key"    -> 13
      [] x = "Src Sys Ky"    -> 14

\* difflib.get_close_matches(word, possibilities, n=1, cutoff): the best
\* scoring possibility at or above the cutoff (heapq.nlargest over
\* (score, name) pairs), NA when there is none
GetCloseMatch(word, possibilities, cutoff) ==
    LET cand == {x \in Range(possibilities) : Ratio(x, word) >= cutoff}
    IN IF cand = {} THEN NA
       ELSE CHOOSE x \in cand : \A y \in cand :
                \/ Ratio(y, word) < Ratio(x, word)
                \/ Ratio(y, word) = Ratio(x, word) /\ StrRank(y) <= StrRank(x)

\* first variant, in listed order, that is literally among the columns
ExactMatch(target, available_columns) ==
    LET vs == Variants(target)
        hit == {i \in 1..Len(vs) : vs[i] \in Range(available_columns)}
    IN IF hit = {} THEN NA
       ELSE vs[CHOOSE i \in hit : \A j \in hit : i <= j]

\* first variant, in listed order, with a close match at cutoff 0.8
FuzzyVariantMatch(target, available_columns) ==
    LET vs == Variants(target)
        hit == {i \in 1..Len(vs) : GetCloseMatch(vs[i], available_columns, 800) # NA}
    IN IF hit = {} THEN NA
       ELSE GetCloseMatch(vs[CHOOSE i \in hit : \A j \in hit : i <= j],
                          available_columns, 800)

\* a resolver that tries the approximate alias matches before the literal ones
find_column_match_fuzzy_first(target_column, available_columns) ==
    IF FuzzyVariantMatch(target_column, available_columns) # NA
    THEN FuzzyVariantMatch(target_column, available_columns)
    ELSE IF ExactMatch(target_column, available_columns) # NA
    THEN ExactMatch(target_column, available_columns)
    ELSE GetCloseMatch(target_column, available_columns, 700)

find_column_match(target_column, available_columns) ==
    IF ExactMatch(target_column, available_columns) # NA
    THEN ExactMatch(target_column, available_columns)
    ELSE IF FuzzyVariantMatch(target_column, available_columns) # NA
    THEN FuzzyVariantMatch(target_column, available_columns)
    ELSE GetCloseMatch(target_column, available_columns, 700)

\* column_mapping of standardize_column_names: matched column -> canonical
\* field; a later field that matched the same column overwrites the entry
column_mapping(available_columns) ==
    LET matched == {find_column_match(MainFields[i], available_columns) :
                        i \in 1..Len(MainFields)} \ {NA}
        last(c) == CHOOSE i \in 1..Len(MainFields) :
                     /\ find_column_match(MainFields[i], available_columns) = c
                     /\ \A j \in 1..Len(MainFields) :
                          find_column_match(MainFields[j], available_columns) = c
                              => j <= i
    IN [c \in matched |-> MainFields[last(c)]]

\* df.rename(columns=column_mapping).columns
standardize_column_names(available_columns) ==
    LET m == column_mapping(available_columns)
    IN [i \in DOMAIN available_columns |->
            IF available_columns[i] \in DOMAIN m THEN m[available_columns[i]]
            ELSE available_columns[i]]

\* required_columns of validate_main_file (the canonical fields kept)
RequiredMain ==
    {"SRC_SYS_KY", "NDP_TOTAL_USD", "NET_TOTAL_USD", "NET_TOTAL_LC",
     "NDP_TOTAL_LC"}

\* validate_main_file rejecting a file only when it has none of the
\* required columns
MissingMain_AllOrNothing(available_columns) ==
    IF RequiredMain \cap Range(standardize_column_names(available_columns)) = {}
    THEN RequiredMain ELSE {}

\* missing_columns of validate_main_file
MissingMain(available_columns) ==
    {col \in RequiredMain :
        col \notin Range(standardize_column_names(available_columns))}

\* required_columns of validate_reference_file
RequiredReference ==
    <<"PL", "BU", "TYPE", "EXCLUSION_PARTY_ID", "EXCLUSION_LEVEL",
      "PG_EXCLUSION_ELIGIBLE_LIST_PARTY_ID", "LOC_ID", "ELICPES", "PN_PL",
      "BU_1", "COMMON_PL", "COMMON_PN_PL">>

\* missing_columns of validate_reference_file: get_default_mappings() has
\* no 'reference_file_mappings', so no column of a reference file is renamed
MissingReference(available_columns) ==
    {col \in Range(RequiredReference) : col \notin Range(available_columns)}

\* header rows a main data file may have, in column order
MainHeaderSpace ==
    { <<"SRC_SYS_KY", "NDP_TOTAL_USD", "NET_TOTAL_USD", "NET_TOTAL_LC", "NDP_TOTAL_LC">>,
      <<"Src Sys Ky", "NDP_TOTAL_USD", "Net Total Usd", "Net Total Lc", "NDP_TOTAL_LC">>,
      <<"SRC_SYS_KEY", "NDP_TOTAL_USD", "NET_TOTAL_USD", "NET_TOTAL_LC", "NDP_TOTAL_LC">>,
      <<"Source Key", "NDP_TOTAL_USD", "NET_TOTAL_USD", "NET_TOTAL_LC", "NDP_TOTAL_LC">>,
      <<"SRC_SYS_KY", "NDP_TOTAL_USD", "NET_TOTAL_USD", "NDP_TOTAL_LC">>,
      <<"SRC_SYS_KY", "NDP_TOTAL_USD", "NET_TOTAL_LC", "NDP_TOTAL_LC">>,
      <<"SRC_SYS_KY", "NDP_TOTAL_USD", "NET_TOTAL_US", "NET_TOTAL_LC", "NDP_TOTAL_LC">>,
      <<"SRC_SYS_KY", "NDP_TOTAL_USD", "NET_TOTAL_US", "NDP_TOTAL_LC">>,
      <<"SRC_SYS_KY", "NET_TOTAL_US1", "NET_TOTAL_LC">>,
      <<"Comments">> }

\* the sheet without one of its columns
Without(columns, name) == SelectSeq(columns, LAMBDA c : c # name)

\* header rows a reference file may have, in column order
ReferenceHeaderSpace ==
    { RequiredReference,
      Without(RequiredReference, "ELICPES"),
      Without(RequiredReference, "TYPE") \o <<"Type">> }

(***************************************************************************)
(* Reference rules of the two regions ('Sheet1' of each reference file).   *)
(***************************************************************************)
RefUS ==
    << [PL |-> "C1", BU |-> "Compute", TYPE |-> "Standard",
        EXCLUSION_PARTY_ID |-> 501, EXCLUSION_LEVEL |-> "OEM",
        PG_EXCLUSION_ELIGIBLE_LIST_PARTY_ID |-> 601, LOC_ID |-> D1,
        ELICPES |-> "DEAL7", PN_PL |-> "S2",
        BU_1 |-> "Services Focus standalone",
        COMMON_PL |-> "S1", COMMON_PN_PL |-> "Common PL"],
       [PL |-> "C1", BU |-> "Storage", TYPE |-> "Focus",
        EXCLUSION_PARTY_ID |-> 502, EXCLUSION_LEVEL |-> "Tier2",
        PG_EXCLUSION_ELIGIBLE_LIST_PARTY_ID |-> 601, LOC_ID |-> D2,
        ELICPES |-> "DEAL7", PN_PL |-> "S2",
        BU_1 |-> "Services Focus standalone",
        COMMON_PL |-> "S1", COMMON_PN_PL |-> "Common PL"],
       [PL |-> "S1", BU |-> "Services", TYPE |-> "Attach",
        EXCLUSION_PARTY_ID |-> 502, EXCLUSION_LEVEL |-> "Tier2",
        PG_EXCLUSION_ELIGIBLE_LIST_PARTY_ID |-> 601, LOC_ID |-> D2,
        ELICPES |-> NA, PN_PL |-> NA, BU_1 |-> NA,
        COMMON_PL |-> NA, COMMON_PN_PL |-> NA],
       [PL |-> "X1", BU |-> "Compute", TYPE |-> "Attach",
        EXCLUSION_PARTY_ID |-> 502, EXCLUSION_LEVEL |-> "Tier2",
        PG_EXCLUSION_ELIGIBLE_LIST_PARTY_ID |-> 601, LOC_ID |-> 1009999998,
        ELICPES |-> NA, PN_PL |-> NA, BU_1 |-> NA,
        COMMON_PL |-> NA, COMMON_PN_PL |-> NA],
       [PL |-> "N3", BU |-> "Services", TYPE |-> "Attach",
        EXCLUSION_PARTY_ID |-> 502, EXCLUSION_LEVEL |-> "Tier2",
        PG_EXCLUSION_ELIGIBLE_LIST_PARTY_ID |-> 601, LOC_ID |-> D2,
        ELICPES |-> NA, PN_PL |-> NA, BU_1 |-> NA,
        COMMON_PL |-> NA, COMMON_PN_PL |-> NA],
       [PL |-> "C2", BU |-> "Compute", TYPE |-> "Services",
        EXCLUSION_PARTY_ID |-> 502, EXCLUSION_LEVEL |-> "Tier2",
        PG_EXCLUSION_ELIGIBLE_LIST_PARTY_ID |-> 601, LOC_ID |-> D2,
        ELICPES |-> NA, PN_PL |-> NA, BU_1 |-> NA,
        COMMON_PL |-> NA, COMMON_PN_PL |-> NA] >>

RefCA ==
    << [PL |-> "C1", BU |-> "Compute", TYPE |-> "Focus",
        EXCLUSION_PARTY_ID |-> 502, EXCLUSION_LEVEL |-> "OEM",
        PG_EXCLUSION_ELIGIBLE_LIST_PARTY_ID |-> 600, LOC_ID |-> D1,
        ELICPES |-> "DEAL9", PN_PL |-> "S1",
        BU_1 |-> "Services Standard standalone",
        COMMON_PL |-> "S1", COMMON_PN_PL |-> "Common PL"],
       [PL |-> "S1", BU |-> "Services", TYPE |-> "Standard",
        EXCLUSION_PARTY_ID |-> 501, EXCLUSION_LEVEL |-> "NA",
        PG_EXCLUSION_ELIGIBLE_LIST_PARTY_ID |-> 600, LOC_ID |-> D1,
        ELICPES |-> NA, PN_PL |-> NA, BU_1 |-> NA,
        COMMON_PL |-> NA, COMMON_PN_PL |-> NA],
       [PL |-> "N3", BU |-> "Compute", TYPE |-> "Focus",
        EXCLUSION_PARTY_ID |-> 501, EXCLUSION_LEVEL |-> "NA",
        PG_EXCLUSION_ELIGIBLE_LIST_PARTY_ID |-> 600, LOC_ID |-> D1,
        ELICPES |-> NA, PN_PL |-> NA, BU_1 |-> NA,
        COMMON_PL |-> NA, COMMON_PN_PL |-> NA] >>

\* the rows of the reference workbook at source_path_<g>
ReferenceFile(g) == IF g = "US" THEN RefUS ELSE RefCA

\* region -> rows of df_source_<g>, each region's own frame
VARIABLE df_source

\* a lookup that gives every region the frame of CA
Reference_shared(g) == df_source["CA"]

Reference(g) == df_source[g]

\* df_source.groupby(key)[val].first() looked up at k: the first non-missing
\* val among the reference rows whose key is k, NA when there is none
GroupFirst(src, key, val, k) ==
    LET hit == {i \in 1..Len(src) : src[i][key] = k /\ src[i][val] # NA}
    IN IF hit = {} THEN NA
       ELSE src[CHOOSE i \in hit : \A j \in hit : i <= j][val]

\* the values of one column of a reference sheet (Series.isin argument)
ColumnValues(src, col) == {src[i][col] : i \in 1..Len(src)}

(***************************************************************************)
(* Reporting calendars and the run date.  Dates are YYYYMMDD numbers.      *)
(***************************************************************************)
\* datetime.today() of the run
RunDates == {20251104}

\* a Days of Reporting workbook: whether pd.read_excel can read it, its
\* column names, and its rows (one cell per column)
CalendarSpace ==
    { [readable |-> TRUE, columns |-> <<"Date", "Days of Reporting">>,
       rows |-> <<<<20251103, 1>>, <<20251104, 2>>, <<20260130, 60>>>>],
      [readable |-> TRUE, columns |-> <<"Date", "Days of Reporting">>,
       rows |-> <<<<20251103, 1>>, <<20251105, 3>>, <<20260130, 60>>>>],
      [readable |-> TRUE, columns |-> <<"Date">>,
       rows |-> <<<<20251103>>, <<20251104>>>>],
      [readable |-> FALSE, columns |-> <<>>, rows |-> <<>>] }

\* matching_row = df_days[df_days[date_col] == current_date_dt]: the
\* positions of the rows dated exactly the run date
MatchingRows(cal, day) == {i \in 1..Len(cal.rows) : cal.rows[i][1] = day}

\* .iloc[0] of the matching rows
FirstMatch(cal, day) ==
    CHOOSE i \in MatchingRows(cal, day) : \A j \in MatchingRows(cal, day) : i <= j

\* outcome of one "Read Days of Reporting file" block: the value left in
\* days_reporting and whether exit(1) was called
DaysReportingLookup(cal, day) ==
    IF ~cal.readable THEN [exit |-> FALSE, days |-> 0]
    ELSE IF Len(cal.columns) >= 2
         THEN IF MatchingRows(cal, day) # {}
              THEN [exit |-> FALSE, days |-> cal.rows[FirstMatch(cal, day)][2]]
              ELSE [exit |-> TRUE, days |-> 0]
         ELSE [exit |-> FALSE, days |-> 0]

RECURSIVE MaxOf(_)
MaxOf(S) ==
    LET x == CHOOSE y \in S : TRUE
    IN IF S = {x} THEN x
       ELSE IF x >= MaxOf(S \ {x}) THEN x ELSE MaxOf(S \ {x})

\* today.month
MonthOf(day) == (day \div 100) % 100

\* get_fiscal_quarter(month)
get_fiscal_quarter(month) ==
    IF month \in {11, 12, 1} THEN "Q1"
    ELSE IF month \in {2, 3, 4} THEN "Q2"
    ELSE IF month \in {5, 6, 7} THEN "Q3"
    ELSE "Q4"

\* (end_date_obj - start_date_obj).days + 1 of the fiscal quarter of the run
\* date (a quarter with February has 89 or 90 days)
days_quarter_fallback(day) ==
    IF get_fiscal_quarter(MonthOf(day)) # "Q2" THEN 92
    ELSE IF ((day \div 10000) % 4 = 0) THEN 90 ELSE 89

\* df_days['Days of Reporting'].max() if the column exists and the sheet
\* has rows, else 0
DaysQuarterOf(cal) ==
    IF Len(cal.columns) >= 2 /\ cal.columns[2] = "Days of Reporting"
       /\ Len(cal.rows) > 0
    THEN MaxOf({cal.rows[i][2] : i \in 1..Len(cal.rows)})
    ELSE 0

\* days_quarter_ca / days_quarter_us: a workbook that could not be read left
\* its df_days name unbound, the NameError is caught and both regions get
\* the fallback
days_quarter(cals, day, g) ==
    IF \E h \in Regions : ~cals[h].readable THEN days_quarter_fallback(day)
    ELSE DaysQuarterOf(cals[g])

(***************************************************************************)
(* Operation 1: the filter gates.                                          *)
(***************************************************************************)
df_src_of(d) == {r \in d : r.SRC_SYS_KY \in {2032, 2866}}

df_cross_sourced_of(d) == {r \in df_src_of(d) : r.CROSS_SOURCED # "Y"}

\* rows with BDE_FLAG 'Y' leave; the blanks that stay become 'N'
df_bde_of(d) ==
    {IF r.BDE_FLAG = NA THEN [r EXCEPT !.BDE_FLAG = "N"] ELSE r :
        r \in {x \in df_cross_sourced_of(d) : x.BDE_FLAG # "Y"}}

df_msp_of(d) == {r \in df_bde_of(d) : r.MSP_FLAG # "T"}

df_reporting_of(d) == {r \in df_msp_of(d) : r.REPORTING_TYPE # "RCS"}

\* the side channel split off the raw data instead of off df_msp
df_rcs_of_raw(d) == {r \in d : r.REPORTING_TYPE = "RCS"}

df_rcs_of(d) == {r \in df_msp_of(d) : r.REPORTING_TYPE = "RCS"}

(***************************************************************************)
(* Per-region classification (region g, reference sheet Reference(g)).     *)
(***************************************************************************)
\* .fillna('')
FillEmpty(v) == IF v = NA THEN "" ELSE v

\* names of the amount columns in the currency of a region
NDP_TOTAL(g) == IF g = "US" THEN "NDP_TOTAL_USD" ELSE "NDP_TOTAL_LC"
UPFRONT_DISCOUNT_AMT(g) ==
    IF g = "US" THEN "UPFRONT_DISCOUNT_AMT_USD" ELSE "UPFRONT_DISCOUNT_AMT_LC"
BACKEND_DISCOUNT_AMT(g) ==
    IF g = "US" THEN "BACKEND_DISCOUNT_AMT_USD" ELSE "BACKEND_DISCOUNT_AMT_LC"
NET_TOTAL(g) == IF g = "US" THEN "NET_TOTAL_USD" ELSE "NET_TOTAL_LC"

\* an unmapped product line given the first reference row's business unit
\* and type instead of a missing value
df_extend_columns_row_default(g, r) ==
    LET bu == GroupFirst(Reference(g), "PL", "BU", r.PRODUCT_LINE)
        ty == GroupFirst(Reference(g), "PL", "TYPE", r.PRODUCT_LINE)
    IN r @@ [BU |-> IF bu = NA THEN Reference(g)[1].BU ELSE bu,
             BU_Type |-> IF ty = NA THEN Reference(g)[1].TYPE ELSE ty,
             Scheme_Name |->
                 StrConcat(IF bu = NA THEN Reference(g)[1].BU ELSE bu,
                           IF ty = NA THEN Reference(g)[1].TYPE ELSE ty)]

\* BU, BU_Type and Scheme_Name of a row
df_extend_columns_row(g, r) ==
    LET bu == GroupFirst(Reference(g), "PL", "BU", r.PRODUCT_LINE)
        ty == GroupFirst(Reference(g), "PL", "TYPE", r.PRODUCT_LINE)
    IN r @@ [BU |-> bu, BU_Type |-> ty,
             Scheme_Name |-> StrConcat(FillEmpty(bu), FillEmpty(ty))]

\* the text np.where leaves in Disty_Partners: the distributor id as text
\* (a one-cell tuple here) for an eligible location, '' (the empty tuple)
\* otherwise
DistyPartnersText(g, r) ==
    IF r.DISTRIBUTOR_PARTY_ID \in ColumnValues(Reference(g), "LOC_ID")
    THEN <<r.DISTRIBUTOR_PARTY_ID>> ELSE <<>>

\* Exclusions and PG_Exclusions of a row; Disty_Partners still as text
df_exclusions_columns_row(g, r) ==
    r @@ [Exclusions |-> GroupFirst(Reference(g), "EXCLUSION_PARTY_ID",
                                    "EXCLUSION_LEVEL", r.RESELLER_PARTY_ID),
          PG_Exclusions |->
              IF r.RESELLER_PARTY_ID \in
                   ColumnValues(Reference(g), "PG_EXCLUSION_ELIGIBLE_LIST_PARTY_ID")
              THEN "PG" ELSE "SBP",
          Disty_Partners |-> DistyPartnersText(g, r)]

\* pd.to_numeric(text, errors='coerce') of one cell: the number read from
\* the text, NaN (the empty cell) for a text that is not a number
to_numeric(text) ==
    IF text[1] \in TextIds THEN <<>> ELSE <<text[1]>>

\* df_exclusions_columns: rows whose Disty_Partners is '' are dropped, the
\* others get what pd.to_numeric reads from the text, and the rows left with
\* NaN are dropped by dropna(subset=['Disty_Partners'])
df_exclusions_columns_of(g, d) ==
    {[x EXCEPT !.Disty_Partners = to_numeric(x.Disty_Partners)[1]] :
        x \in {y \in {df_exclusions_columns_row(g, df_extend_columns_row(g, r)) :
                        r \in d} : /\ y.Disty_Partners # <<>>
                                   /\ to_numeric(y.Disty_Partners) # <<>>}}

Delta(g, r) ==
    (r[NDP_TOTAL(g)] - r[UPFRONT_DISCOUNT_AMT(g)] - r[BACKEND_DISCOUNT_AMT(g)])
        - r[NET_TOTAL(g)]

\* the upfront discount of the row taken as it is, without the Delta
Updated_upfront_as_given(g, r) == r[UPFRONT_DISCOUNT_AMT(g)]

Updated_upfront(g, r) == Delta(g, r) + r[UPFRONT_DISCOUNT_AMT(g)]

\* Diff without the net total subtracted
Diff_without_net(g, r) ==
    r[NDP_TOTAL(g)] - r[BACKEND_DISCOUNT_AMT(g)] - Updated_upfront(g, r)

Diff(g, r) ==
    r[NDP_TOTAL(g)] - r[BACKEND_DISCOUNT_AMT(g)] - Updated_upfront(g, r)
        - r[NET_TOTAL(g)]

Match(g, r) ==
    r[NDP_TOTAL(g)] - (Updated_upfront(g, r) + r[BACKEND_DISCOUNT_AMT(g)])

Match_1(g, r) == Match(g, r) - r[NET_TOTAL(g)]

df_exclusions_columns_calc_row(g, r) ==
    r @@ [Delta |-> Delta(g, r), Updated_upfront |-> Updated_upfront(g, r),
          Diff |-> Diff(g, r), Match |-> Match(g, r), Match_1 |-> Match_1(g, r)]

\* PIPP_delas, PN_Standalone and Common_PN_PL of a row
df_exclusions_columns_final_row(g, r) ==
    r @@ [PIPP_delas |->
              IF r.BACKEND_DEAL_1 \in ColumnValues(Reference(g), "ELICPES")
              THEN r.BACKEND_DEAL_1 ELSE NA,
          PN_Standalone |->
              GroupFirst(Reference(g), "PN_PL", "BU_1", r.PRODUCT_LINE),
          Common_PN_PL |->
              GroupFirst(Reference(g), "COMMON_PL", "COMMON_PN_PL", r.PRODUCT_LINE)]

df_exclusions_columns_final_of(g, d) ==
    {df_exclusions_columns_final_row(g, df_exclusions_columns_calc_row(g, x)) :
        x \in df_exclusions_columns_of(g, d)}

\* df_exclusions_columns_final_<g>_formatted
formatted_of(dfin) ==
    {r \in dfin : r.Scheme_Name # "" /\ r.PIPP_delas = NA}

\* df_exclusions_columns_final_<g>_formatted_with_exclusions
formatted_with_exclusions_of(dfin) ==
    {r \in dfin : r.Scheme_Name # "" /\ r.PIPP_delas = NA}

\* dropna(subset=['BU']) followed by Exclusions.replace('NA', np.nan)
df_final_base(dfin) ==
    {IF r.Exclusions = "NA" THEN [r EXCEPT !.Exclusions = NA] ELSE r :
        r \in {x \in dfin : x.BU # NA}}

df_final_exclusion_of(dfin) == {r \in df_final_base(dfin) : r.Exclusions # NA}

\* Disty_Partners is a number by now, never missing nor ''
df_final_of(dfin) == {r \in df_final_base(dfin) : r.Exclusions = NA}

df_pg_of(dfinal) == {r \in dfinal : r.PG_Exclusions = "PG"}

df_sbp_of(dfinal) == {r \in dfinal : r.PG_Exclusions = "SBP"}

(***************************************************************************)
(* Sums over data frames.                                                  *)
(***************************************************************************)
RECURSIVE SumField(_, _)
\* Series.sum() of column f over the rows of S
SumField(S, f) ==
    IF S = {} THEN 0
    ELSE LET r == CHOOSE x \in S : TRUE
         IN r[f] + SumField(S \ {r}, f)

(***************************************************************************)
(* Monthly preparation and the report builder.                             *)
(***************************************************************************)
\* month_date.dt.strftime('%B') + '_NDP_sales'
MonthSalesCol(month) ==
    CASE month = 1 -> "January_NDP_sales"    [] month = 2 -> "February_NDP_sales"
      [] month = 3 -> "March_NDP_sales"      [] month = 4 -> "April_NDP_sales"
      [] month = 5 -> "May_NDP_sales"        [] month = 6 -> "June_NDP_sales"
      [] month = 7 -> "July_NDP_sales"       [] month = 8 -> "August_NDP_sales"
      [] month = 9 -> "September_NDP_sales"  [] month = 10 -> "October_NDP_sales"
      [] month = 11 -> "November_NDP_sales"  [] month = 12 -> "December_NDP_sales"

\* rows of the fiscal quarter label of the run date, with their month columns
prepare_monthly_data(df_data, day) ==
    {r @@ [fiscal_quarter |-> get_fiscal_quarter(r.FISCAL_MONTH % 100),
           month_num |-> r.FISCAL_MONTH % 100,
           month_sales_col |-> MonthSalesCol(r.FISCAL_MONTH % 100)] :
        r \in {x \in df_data : get_fiscal_quarter(x.FISCAL_MONTH % 100)
                                  = get_fiscal_quarter(MonthOf(day))}}

compute_storage_filtered_base(d) ==
    {r \in d : ContainsComputeOrStorage(r.Scheme_Name) /\ r.DATA_TYPE = "DS"}

compute_storage_orders_n3(d) ==
    {r \in d : /\ ContainsComputeOrStorage(r.Scheme_Name)
               /\ r.DATA_TYPE \in {"Orders", "S4DOR"}
               /\ r.PRODUCT_LINE = "N3"}

\* the Scheme_Name the Services loop leaves on a row
ServicesSchemeName(r) ==
    IF r.PN_Standalone \in {"Services Focus standalone", "Services Standard standalone"}
    THEN r.Scheme_Name
    ELSE IF r.PN_Standalone \in {NA, ""} /\ r.Common_PN_PL = "Common PL"
    THEN IF /\ StartsWithOperationalService(r.Point_Next_Portfolio_Mapping_1)
            /\ StartsWithCompleteCare(r.Point_Next_Portfolio_Mapping_2)
         THEN "ServicesFocus"
         ELSE IF /\ r.Point_Next_Portfolio_Mapping_1 \notin {NA, ""}
                 /\ r.Point_Next_Portfolio_Mapping_2 \notin {NA, ""}
                 /\ ~StartsWithCompleteCare(r.Point_Next_Portfolio_Mapping_2)
         THEN "ServicesStandard"
         ELSE r.Scheme_Name
    ELSE r.Scheme_Name

services_filtered(d) ==
    {[r EXCEPT !.Scheme_Name = ServicesSchemeName(r)] :
        r \in {x \in d : /\ ContainsServices(x.Scheme_Name)
                         /\ x.DATA_TYPE \in {"DS", "Orders", "S4DOR"}}}

\* the rows of one operand of pd.concat, marked with the operand they come
\* from, so that a row of two operands stays two rows
Operand(S, name) == {r @@ [operand |-> name] : r \in S}

\* df_combined_filtered / df_combined_unfiltered
df_combined(d) ==
    Operand(compute_storage_filtered_base(d), "compute_storage_base")
        \cup Operand(compute_storage_orders_n3(d), "compute_storage_orders_n3")
        \cup Operand(services_filtered(d), "services")

\* a copy whose Services rows are exempt from the Scheme_Name updates of the
\* Services loop
df_main_data_unfiltered_not_updated(df_main_data) ==
    {[r EXCEPT !.PN_Standalone = "Services Focus standalone"] : r \in df_main_data}

\* df_main_data_unfiltered = df_main_data.copy()
df_main_data_unfiltered(df_main_data) == df_main_data

WithKey(d, scheme, pl) ==
    {r \in d : r.Scheme_Name = scheme /\ r.PRODUCT_LINE = pl}

WithProductLine(d, pl) == {r \in d : r.PRODUCT_LINE = pl}

\* df_report['Total Deal @Net Sales Out']
Total_Deal_Net_Sales_Out(tso, upfront, backend) == tso - (upfront + backend)

\* Total Exclusions without the LA Sales term
Total_Exclusions_without_la(other, oem, la) == other + oem

\* df_report['Total Exclusions']
Total_Exclusions(other, oem, la) == other + oem + la

\* df_report['Total eligible DSO Deal@Net'] before fillna(0)
Total_eligible_DSO_Deal_Net(total_deal, total_exclusions) ==
    total_deal - total_exclusions

\* the rows that feed 'LA Sales' of a report
la_sales_rows(rcs, pl) == WithProductLine(rcs, pl)

\* one row of df_report.  A left merge that finds no aggregate leaves a
\* missing value: the column is then listed in 'missing' and holds 0 here.
ReportRow(g, scheme, pl, unfiltered, filtered, df_exclusion, df_pg, df_sbp, rcs) ==
    LET cols     == {r.month_sales_col : r \in unfiltered}
        mine     == WithKey(unfiltered, scheme, pl)
        agg      == WithKey(filtered, scheme, pl)
        tso      == SumField(mine, NDP_TOTAL(g))
        upfront  == SumField(agg, "Updated_upfront")
        backend  == SumField(agg, BACKEND_DISCOUNT_AMT(g))
        deal     == IF agg = {} THEN 0
                    ELSE Total_Deal_Net_Sales_Out(tso, upfront, backend)
        other    == SumField({r \in WithProductLine(df_exclusion, pl) :
                                 r.Exclusions # "OEM"}, NET_TOTAL(g))
        oem      == SumField({r \in WithProductLine(df_exclusion, pl) :
                                 r.Exclusions = "OEM"}, NET_TOTAL(g))
        la       == SumField(la_sales_rows(rcs, pl), NET_TOTAL(g))
        excl     == Total_Exclusions(other, oem, la)
    IN [Program_Name |-> scheme, PRODUCT_LINE |-> pl,
        sales |-> [c \in cols |->
                     SumField({r \in mine : r.month_sales_col = c}, NDP_TOTAL(g))],
        NDP_Sales_TSO |-> tso,
        Upfront |-> upfront, Backend |-> backend,
        Total_Deal_Net_Sales_Out |-> deal,
        missing |-> IF agg = {}
                    THEN {"Upfront", "Backend", "Total Deal @Net Sales Out"}
                    ELSE {},
        Other_Exclusions_Net_Sales |-> other, OEM_Exclusions |-> oem,
        LA_Sales |-> la, Total_Exclusions |-> excl,
        Total_eligible_DSO_Deal_Net |->
            IF agg = {} THEN 0 ELSE Total_eligible_DSO_Deal_Net(deal, excl),
        PG_Coverage_Sales |-> SumField(WithProductLine(df_pg, pl), NET_TOTAL(g)),
        SBP_Coverage_Sales |-> SumField(WithProductLine(df_sbp, pl), NET_TOTAL(g))]

\* rcs_exclusions_df: one row per (PRODUCT_LINE, DISTRIBUTOR_PARTY_ID) of the
\* side-channel rows, each row given as the records it sums
rcs_exclusions_df(rcs) ==
    {{r \in rcs : r.PRODUCT_LINE = x.PRODUCT_LINE
                    /\ r.DISTRIBUTOR_PARTY_ID = x.DISTRIBUTOR_PARTY_ID} :
        x \in rcs}

\* a frame merged into the report as it is, without the sum by PRODUCT_LINE
rcs_exclusions_summary_not_grouped(rcs) == rcs_exclusions_df(rcs)

\* rcs_exclusions_summary: rcs_exclusions_df summed again by PRODUCT_LINE
rcs_exclusions_summary(rcs) ==
    {UNION {grp \in rcs_exclusions_df(rcs) :
              \A r \in grp : r.PRODUCT_LINE = x.PRODUCT_LINE} : x \in rcs}

\* df_report.merge(rcs_exclusions_summary, on='PRODUCT_LINE', how='left') for
\* the report row of one key: one row per matching row of the right frame
\* (marked with the records that row sums), one row when none matches
merge_la_sales(g, scheme, pl, unfiltered, filtered, df_exclusion, df_pg, df_sbp, rcs) ==
    LET right == {grp \in rcs_exclusions_summary(rcs) :
                    \A r \in grp : r.PRODUCT_LINE = pl}
    IN IF right = {}
       THEN {ReportRow(g, scheme, pl, unfiltered, filtered, df_exclusion,
                       df_pg, df_sbp, {}) @@ [LA_Sales_rows |-> {}]}
       ELSE {ReportRow(g, scheme, pl, unfiltered, filtered, df_exclusion,
                       df_pg, df_sbp, grp)
               @@ [LA_Sales_rows |-> {r.INVOICE_NUMBER : r \in grp}] :
               grp \in right}

generate_currency_report_regional(g, df_main_data, df_exclusion, df_pg, df_sbp, rcs) ==
    LET filtered   == df_combined(df_main_data)
        unfiltered == df_combined(df_main_data_unfiltered(df_main_data))
    IN UNION {merge_la_sales(g, k[1], k[2], unfiltered, filtered, df_exclusion,
                             df_pg, df_sbp, rcs) :
                k \in {<<r.Scheme_Name, r.PRODUCT_LINE>> : r \in unfiltered}}

\* sum of one month column over report rows
RECURSIVE SumSales(_, _)
SumSales(rows, c) ==
    IF rows = {} THEN 0
    ELSE LET r == CHOOSE x \in rows : TRUE
         IN r.sales[c] + SumSales(rows \ {r}, c)

create_program_summary(df_report) ==
    {LET rows == {r \in df_report : r.Program_Name = p}
         cols == UNION {DOMAIN r.sales : r \in rows}
     IN [Program_Name |-> p,
         sales |-> [c \in cols |-> SumSales(rows, c)],
         NDP_Sales_TSO |-> SumField(rows, "NDP_Sales_TSO"),
         Upfront |-> SumField(rows, "Upfront"),
         Backend |-> SumField(rows, "Backend"),
         Total_Deal_Net_Sales_Out |-> SumField(rows, "Total_Deal_Net_Sales_Out"),
         Other_Exclusions_Net_Sales |-> SumField(rows, "Other_Exclusions_Net_Sales"),
         OEM_Exclusions |-> SumField(rows, "OEM_Exclusions"),
         LA_Sales |-> SumField(rows, "LA_Sales"),
         Total_Exclusions |-> SumField(rows, "Total_Exclusions"),
         Total_eligible_DSO_Deal_Net |-> SumField(rows, "Total_eligible_DSO_Deal_Net"),
         PG_Coverage_Sales |-> SumField(rows, "PG_Coverage_Sales"),
         SBP_Coverage_Sales |-> SumField(rows, "SBP_Coverage_Sales")] :
       p \in {r.Program_Name : r \in df_report}}

(***************************************************************************)
(* Exclusions data sheets, fiscal quarter dates and the Summary sheet.     *)
(***************************************************************************)
\* one row of the 'Exclusions Data' sheet (required_columns of
\* filter_and_export_disty_data that the model carries)
ExclusionsDataRow(g, r) ==
    [DISTRIBUTOR_PARTY_ID |-> r.DISTRIBUTOR_PARTY_ID,
     INVOICE_NUMBER |-> r.INVOICE_NUMBER, Exclusions |-> r.Exclusions,
     PRODUCT_LINE |-> r.PRODUCT_LINE, RESELLER_PARTY_ID |-> r.RESELLER_PARTY_ID,
     NET_TOTAL |-> r[NET_TOTAL(g)], operand |-> r.operand]

\* us_datasets / ca_datasets: partner -> rows with an exclusion level
filter_and_export_disty_data(g, df_data) ==
    LET df_exclusions_filtered == {r \in df_combined(df_data) : r.Exclusions # NA}
    IN [p \in {r.Disty_Partners : r \in df_exclusions_filtered} |->
          {ExclusionsDataRow(g, r) :
             r \in {x \in df_exclusions_filtered : x.Disty_Partners = p}}]

\* a start_date for which January belongs to the quarter that starts in
\* November of the same year
start_date_same_year(day) ==
    LET y == day \div 10000  m == MonthOf(day)
    IN IF m \in {11, 12, 1} THEN y * 10000 + 1101
       ELSE IF m \in {2, 3, 4} THEN y * 10000 + 201
       ELSE IF m \in {5, 6, 7} THEN y * 10000 + 501
       ELSE y * 10000 + 801

start_date(day) ==
    LET y == day \div 10000  m == MonthOf(day)
    IN IF m \in {11, 12} THEN y * 10000 + 1101
       ELSE IF m = 1 THEN (y - 1) * 10000 + 1101
       ELSE IF m \in {2, 3, 4} THEN y * 10000 + 201
       ELSE IF m \in {5, 6, 7} THEN y * 10000 + 501
       ELSE y * 10000 + 801

end_date(day) ==
    LET y == day \div 10000  m == MonthOf(day)
    IN IF m \in {11, 12} THEN (y + 1) * 10000 + 131
       ELSE IF m = 1 THEN y * 10000 + 131
       ELSE IF m \in {2, 3, 4} THEN y * 10000 + 430
       ELSE IF m \in {5, 6, 7} THEN y * 10000 + 731
       ELSE y * 10000 + 1031

\* current_fq of prepare_monthly_data and start_date / end_date of the
\* summary setup, all taken from datetime.today()
FiscalCalendar(day) ==
    [current_fq |-> get_fiscal_quarter(MonthOf(day)),
     start_date |-> start_date(day), end_date |-> end_date(day)]

\* the key f"{program_name}_{suffix}", kept as the pair of its two parts
ProgramKey(program_name, suffix) == <<program_name, suffix>>

\* program_percentage_mapping, rates in per-mille
program_percentage_mapping ==
    (ProgramKey("ComputeStandard", "PG") :> 5)
    @@ (ProgramKey("StorageStandard", "PG") :> 5)
    @@ (ProgramKey("ComputeStandard", "SBP") :> 55)
    @@ (ProgramKey("StorageStandard", "SBP") :> 55)
    @@ (ProgramKey("ComputeFocus", "PG") :> 35)
    @@ (ProgramKey("StorageFocus", "PG") :> 35)
    @@ (ProgramKey("ComputeFocus", "SBP") :> 65)
    @@ (ProgramKey("StorageFocus", "SBP") :> 65)
    @@ (ProgramKey("ServicesStandard", "PG") :> 20)
    @@ (ProgramKey("ServicesStandard", "SBP") :> 40)
    @@ (ProgramKey("ServicesFocus", "PG") :> 40)
    @@ (ProgramKey("ServicesFocus", "SBP") :> 60)

\* a lookup that falls back to the lowest rate of the table instead of 0
program_percentage_fallback(key) ==
    IF key \in DOMAIN program_percentage_mapping
    THEN program_percentage_mapping[key] ELSE 5

\* program_percentage_mapping.get(key, 0.0)
program_percentage(key) ==
    IF key \in DOMAIN program_percentage_mapping
    THEN program_percentage_mapping[key] ELSE 0

\* (x / days_reporting) * days_quarter if days_reporting > 0 else 0.0, kept
\* as an exact fraction
Projected(x, days_rep, days_qtr) ==
    IF days_rep > 0 THEN [num |-> x * days_qtr, den |-> days_rep]
    ELSE [num |-> 0, den |-> 1]

incentive_name(g) == IF g = "US" THEN "US FinBen" ELSE "CA FinBen"

\* one entry appended to summary_data; Amount is in thousandths of a cent
\* (cents times per-mille)
SummaryEntry(g, program_name, suffix, total_sales, day, days_rep, days_qtr) ==
    LET rate   == program_percentage(ProgramKey(program_name, suffix))
        amount == total_sales * rate
    IN [Incentive_Name |-> incentive_name(g),
        New_Name |-> ProgramKey(program_name, suffix),
        Start_Date |-> start_date(day), End_Date |-> end_date(day),
        Amount |-> amount, Program_Pct |-> rate,
        Days_of_Reporting |-> days_rep, Days_in_Quarter |-> days_qtr,
        Net_QTD_Performance |-> total_sales,
        Net_Projected_Performance |-> Projected(total_sales, days_rep, days_qtr),
        Total_Rebate_Amount |-> amount,
        Projected_Rebate_Amount |-> Projected(amount, days_rep, days_qtr)]

\* the single row written when there is no program; blank dates are 0 and
\* the blank name is the empty tuple
EmptySummaryEntry(g) ==
    [Incentive_Name |-> incentive_name(g), New_Name |-> <<>>,
     Start_Date |-> 0, End_Date |-> 0, Amount |-> 0, Program_Pct |-> 0,
     Days_of_Reporting |-> 0, Days_in_Quarter |-> 0,
     Net_QTD_Performance |-> 0,
     Net_Projected_Performance |-> [num |-> 0, den |-> 1],
     Total_Rebate_Amount |-> 0,
     Projected_Rebate_Amount |-> [num |-> 0, den |-> 1]]

create_summary_report(g, partner_report, day, days_rep, days_qtr) ==
    LET program_summary == create_program_summary(partner_report)
        summary_data ==
            UNION {{SummaryEntry(g, ps.Program_Name, "PG", ps.PG_Coverage_Sales,
                                 day, days_rep, days_qtr),
                    SummaryEntry(g, ps.Program_Name, "SBP", ps.SBP_Coverage_Sales,
                                 day, days_rep, days_qtr)} :
                   ps \in {x \in program_summary : x.Program_Name # ""}}
    IN IF summary_data = {} THEN {EmptySummaryEntry(g)} ELSE summary_data

(***************************************************************************)
(* One partner of process_disty_partner_comprehensive.                     *)
(***************************************************************************)
unique_partners(df_final_data) == {r.Disty_Partners : r \in df_final_data}

partner_monthly_data(df_final_data, partner, day) ==
    prepare_monthly_data({r \in df_final_data : r.Disty_Partners = partner}, day)

partner_report(g, df_final_data, df_exclusions_final, partner, day, rcs) ==
    LET partner_final_data == {r \in df_final_data : r.Disty_Partners = partner}
    IN generate_currency_report_regional(g,
           partner_monthly_data(df_final_data, partner, day),
           {r \in df_exclusions_final : r.Disty_Partners = partner},
           df_pg_of(partner_final_data), df_sbp_of(partner_final_data), rcs)

\* the workbook Disty_Partner_<partner>_Report.xlsx
PartnerWorkbook(g, df_final_data, df_exclusions_final, partner, day, rcs, days_rep, days_qtr, exclusions_datasets) ==
    LET rep == partner_report(g, df_final_data, df_exclusions_final, partner, day, rcs)
    IN [region |-> g, partner |-> partner,
        DSO_DataSheet |-> rep,
        Program_Summary |-> create_program_summary(rep),
        Summary |-> create_summary_report(g, rep, day, days_rep, days_qtr),
        Exclusions_Data |-> IF partner \in DOMAIN exclusions_datasets
                            THEN exclusions_datasets[partner] ELSE {}]

\* the partner workbooks one call of process_disty_partner_comprehensive
\* writes for the partners in ps
PartnerWorkbooks(g, ps, df_final_data, df_exclusions_final, day, rcs, days_rep, days_qtr, exclusions_datasets) ==
    {PartnerWorkbook(g, df_final_data, df_exclusions_final, p, day, rcs,
                     days_rep, days_qtr, exclusions_datasets) :
        p \in {q \in ps : partner_monthly_data(df_final_data, q, day) # {}}}

\* the workbook Final_Report_USD_US.xlsx / Final_Report_Canada_CA.xlsx
RegionWorkbook(g, rep, summary) ==
    [region |-> g,
     name |-> IF g = "US" THEN "Final_Report_USD_US.xlsx"
              ELSE "Final_Report_Canada_CA.xlsx",
     Report |-> rep, Program_Summary |-> summary]

(***************************************************************************)
(* Operation 3: the Summary2 sheet added to the partner workbooks from the *)
(* externally sourced rebate data.                                         *)
(***************************************************************************)
\* the cell '' of a projected column: a cell without a value, written as the
\* fraction without a denominator
Blank == [num |-> 0, den |-> 0]

\* scheme_program_mapping.get(scheme_name, ''), then str(): the dollar value
\* as a one-cell tuple, the empty tuple for ''
scheme_program_mapping(scheme_name) ==
    CASE scheme_name = "Compute Expansion L1" -> <<700>>
      [] scheme_name = "Compute Expansion L2" -> <<750>>
      [] scheme_name = "Compute Expansion L3" -> <<800>>
      [] scheme_name = "Services Expansion L1" -> <<250>>
      [] scheme_name = "Services Expansion L2" -> <<600>>
      [] scheme_name = "Storage Expansion L1" -> <<650>>
      [] scheme_name = "Storage Expansion L2" -> <<700>>
      [] scheme_name = "Storage Expansion L3" -> <<1000>>
      [] OTHER -> <<>>

\* the projections of a Summary2 row: computed only with both day counts
\* positive, '' otherwise
Summary2Projected(x, days_of_reporting, days_in_quarter) ==
    IF days_of_reporting > 0 /\ days_in_quarter > 0
    THEN [num |-> x * days_in_quarter, den |-> days_of_reporting]
    ELSE Blank

\* new_row for one row of partner_scheme_data; first_summary_row is the first
\* row of the Summary sheet read back from the partner workbook
Summary2Row(g, row, first_summary_row) ==
    LET days_of_reporting == first_summary_row.Days_of_Reporting
        days_in_quarter   == first_summary_row.Days_in_Quarter
    IN [Incentive_Name |-> incentive_name(g),
        New_Name |-> row.SCHEME,
        Start_Date |-> first_summary_row.Start_Date,
        End_Date |-> first_summary_row.End_Date,
        Amount |-> row.FINAL_REBATE,
        Program_Pct |-> scheme_program_mapping(row.SCHEME),
        Days_of_Reporting |-> days_of_reporting,
        Days_in_Quarter |-> days_in_quarter,
        Net_QTD_Performance |-> row.FINAL_REBATE,
        Net_Projected_Performance |->
            Summary2Projected(row.FINAL_REBATE, days_of_reporting, days_in_quarter),
        Total_Rebate_Amount |-> row.FINAL_REBATE,
        Projected_Rebate_Amount |->
            Summary2Projected(row.FINAL_REBATE, days_of_reporting, days_in_quarter)]

\* update_partner_summary2_sheet: the Summary2 sheet of the workbook wb of one
\* partner; every row of the Summary sheet carries the same day counts and
\* dates, so any of them stands for the first
update_partner_summary2_sheet(g, wb, scheme_data) ==
    LET partner_scheme_data == {r \in scheme_data : r.PARTY_ID = wb.partner}
        first_summary_row   == CHOOSE e \in wb.Summary : TRUE
    IN [region |-> g, partner |-> wb.partner,
        Summary2 |-> {Summary2Row(g, r, first_summary_row) :
                        r \in partner_scheme_data}]

\* the "Process US partners" / "Process CA partners" block of Operation 3:
\* the partners of <g>_tcv_summary that have scheme data and a workbook
Summary2Sheets(g, files, tcv_partner_ids, scheme_data) ==
    IF scheme_data = {} \/ tcv_partner_ids = {} THEN {}
    ELSE {update_partner_summary2_sheet(g, wb, scheme_data) :
            wb \in {f \in files :
                      /\ f.region = g
                      /\ f.partner \in tcv_partner_ids
                      /\ f.partner \in {r.PARTY_ID : r \in scheme_data}}}

\* the grouped scheme data (PARTY_ID, SCHEME, sum of FINAL_REBATE in cents)
\* and the partner ids of the TCV summary that Operation 3 may be given
RebateSpace ==
    {[tcv_partner_ids |-> {}, scheme_data |-> {}],
     [tcv_partner_ids |-> {D1, D2},
      scheme_data |-> {[PARTY_ID |-> D1, SCHEME |-> "Compute Expansion L1",
                        FINAL_REBATE |-> 9000],
                       [PARTY_ID |-> D2, SCHEME |-> "aaS Flex",
                        FINAL_REBATE |-> 4500]}]}

(***************************************************************************)
(* The run of the script as a state machine.                               *)
(***************************************************************************)
VARIABLES
    pc,                \* position of the script
    today,             \* datetime.today()
    main_columns,      \* df.columns of the main data file
    df,                \* rows of the main data file
    source_columns,    \* region -> df_source_<g>.columns
    df_days,           \* region -> Days of Reporting workbook as read
    days_reporting,    \* region -> days_reporting_<g>
    df_reporting,      \* rows after the five gates
    df_rcs,            \* side-channel rows kept for LA Sales
    df_exclusions_columns_final,  \* region -> classified rows
    formatted,         \* region -> ..._formatted
    formatted_with_exclusions,    \* region -> ..._formatted_with_exclusions
    df_final,          \* region -> df_final_<g>
    df_final_exclusion,           \* region -> df_final_<g>_exclusion
    df_experiment,     \* region -> df_experiment_<g>
    report,            \* region -> report__<g>
    region_files,      \* region workbooks written
    datasets,          \* region -> us_datasets / ca_datasets
    days_quarter_of,   \* region -> days_quarter_<g>
    processed,         \* region -> partners whose loop iteration has run
    partner_files,     \* partner workbooks written
    summary2_files,    \* Summary2 sheets added to the partner workbooks
    available_columns, \* list(df.columns) given to standardize_column_names
    matched_col,       \* target_col -> matched_col of that call
    rename_map,        \* column_mapping returned by that call
    df_standardized,   \* df_standardized.columns returned by that call
    calls,             \* calls of standardize_column_names made so far
    failed,            \* region -> partners whose loop iteration raised
    previous,          \* what the run before this one read and wrote
    fiscal,            \* current_fq, start_date and end_date of the run date
    calc_row,          \* a row given to the reconciliation formulas
    calc_out           \* region -> the audit columns computed for calc_row

vars == <<pc, today, main_columns, df, source_columns, df_source, df_days,
          days_reporting,
          df_reporting, df_rcs, df_exclusions_columns_final, formatted,
          formatted_with_exclusions, df_final, df_final_exclusion,
          df_experiment, report, region_files, datasets, days_quarter_of,
          processed, partner_files, summary2_files, available_columns,
          matched_col, rename_map, df_standardized, calls, failed, previous,
          fiscal, calc_row, calc_out>>

input_vars == <<today, main_columns, df, source_columns, df_source>>
gate_vars == <<df_reporting, df_rcs>>
class_vars == <<df_exclusions_columns_final, formatted,
                formatted_with_exclusions, df_final, df_final_exclusion,
                df_experiment>>
op3_vars == <<summary2_files>>
resolver_vars ==
    <<available_columns, matched_col, rename_map, df_standardized, calls>>
fail_vars == <<failed>>
run_vars == <<previous>>
quarter_vars == <<fiscal>>
calc_vars == <<calc_row, calc_out>>

\* a workbook that has not been read: its name is unbound
NotRead == [readable |-> FALSE, columns |-> <<>>, rows |-> <<>>]

\* the data files a run may find: at most MaxRows rows out of RowSpace
RECURSIVE RowSets(_)
RowSets(n) ==
    IF n = 0 THEN {{}}
    ELSE RowSets(n - 1) \cup {d \cup {r} : d \in RowSets(n - 1), r \in RowSpace}

\* data files with one sale of a named distributor next to the side-channel
\* rows of both named distributors
SideChannelFiles ==
    {{r} \cup df_rcs_of(RowSpace) :
        r \in {x \in RowSpace :
                 \E p \in {D1, D2} :
                    [x EXCEPT !.INVOICE_NUMBER = 1]
                        = [BaseRow EXCEPT !.DISTRIBUTOR_PARTY_ID = p]}}

\* the data files a run may be given
DataFiles == RowSets(MaxRows) \cup SideChannelFiles

NoAudit == [Delta |-> 0, Updated_upfront |-> 0, Diff |-> 0, Match |-> 0,
            Match_1 |-> 0, done |-> FALSE]

\* current_fq, start_date and end_date have not been computed
NoQuarter == [current_fq |-> "", start_date |-> 0, end_date |-> 0]

\* no run has been made before this one
NoRun ==
    [runs |-> 0, df_source |-> [g \in Regions |-> <<>>],
     files |-> [g \in Regions |-> [region |-> {}, partners |-> {}]]]

InitPipeline ==
    /\ main_columns = <<>>
    /\ df = {}
    /\ source_columns = [g \in Regions |-> <<>>]
    /\ df_source = [g \in Regions |-> <<>>]
    /\ df_days = [g \in Regions |-> NotRead]
    /\ days_reporting = [g \in Regions |-> 0]
    /\ df_reporting = {}
    /\ df_rcs = {}
    /\ df_exclusions_columns_final = [g \in Regions |-> {}]
    /\ formatted = [g \in Regions |-> {}]
    /\ formatted_with_exclusions = [g \in Regions |-> {}]
    /\ df_final = [g \in Regions |-> {}]
    /\ df_final_exclusion = [g \in Regions |-> {}]
    /\ df_experiment = [g \in Regions |-> {}]
    /\ report = [g \in Regions |-> {}]
    /\ region_files = {}
    /\ datasets = [g \in Regions |-> <<>>]
    /\ days_quarter_of = [g \in Regions |-> 0]
    /\ processed = [g \in Regions |-> {}]
    /\ partner_files = {}
    /\ summary2_files = {}
    /\ failed = [g \in Regions |-> {}]
    /\ previous = NoRun
    /\ fiscal = NoQuarter

\* standardize_column_names has not been called
NoCall ==
    /\ matched_col = <<>>
    /\ rename_map = <<>>
    /\ df_standardized = <<>>
    /\ calls = 0

Init ==
    /\ pc = "read_main"
    /\ today \in RunDates
    /\ InitPipeline
    /\ available_columns = <<>>
    /\ NoCall
    /\ calc_row = BaseRow
    /\ calc_out = [g \in Regions |-> NoAudit]

\* pd.read_excel(file_path) and validate_main_file: a missing required
\* column ends the run in exit_with_usage()
ReadMain ==
    /\ pc = "read_main"
    /\ \E h \in MainHeaderSpace :
         /\ IF MissingMain(h) # {}
            THEN main_columns' = h /\ pc' = "exit"
            ELSE main_columns' = standardize_column_names(h) /\ pc' = "reference_CA"
         /\ \E rows \in DataFiles : df' = rows
    /\ UNCHANGED <<today, source_columns, df_source, df_days, days_reporting,
                   gate_vars, class_vars, report, region_files, datasets,
                   days_quarter_of, processed, partner_files, op3_vars,
                   resolver_vars, fail_vars, run_vars, calc_vars, quarter_vars>>

\* pd.read_excel(source_path_<g>) and validate_reference_file
ReadReference(g) ==
    /\ pc = IF g = "CA" THEN "reference_CA" ELSE "reference_US"
    /\ \E h \in ReferenceHeaderSpace :
         /\ source_columns' = [source_columns EXCEPT ![g] = h]
         /\ df_source' = [df_source EXCEPT ![g] = ReferenceFile(g)]
         /\ pc' = IF MissingReference(h) # {} THEN "exit"
                  ELSE IF g = "CA" THEN "reference_US" ELSE "days_CA"
    /\ UNCHANGED <<today, main_columns, df, df_days, days_reporting,
                   gate_vars, class_vars, report, region_files, datasets,
                   days_quarter_of, processed, partner_files, op3_vars,
                   resolver_vars, fail_vars, run_vars, calc_vars, quarter_vars>>

\* the "Read <g> Days of Reporting file" block
ReadDaysOfReporting(g) ==
    /\ pc = IF g = "CA" THEN "days_CA" ELSE "days_US"
    /\ \E cal \in CalendarSpace :
         LET out == DaysReportingLookup(cal, today)
         IN /\ df_days' = [df_days EXCEPT ![g] = cal]
            /\ days_reporting' =
                 IF out.exit THEN days_reporting
                 ELSE [days_reporting EXCEPT ![g] = out.days]
            /\ pc' = IF out.exit THEN "exit"
                     ELSE IF g = "CA" THEN "days_US" ELSE "gates"
    /\ UNCHANGED <<input_vars, gate_vars, class_vars, report, region_files,
                   datasets, days_quarter_of, processed, partner_files,
                   op3_vars, resolver_vars, fail_vars, run_vars, calc_vars,
                   quarter_vars>>

\* the five gates and the side-channel split
FilterGates ==
    /\ pc = "gates"
    /\ df_reporting' = df_reporting_of(df)
    /\ df_rcs' = df_rcs_of(df)
    /\ pc' = "classify"
    /\ UNCHANGED <<input_vars, df_days, days_reporting, class_vars, report,
                   region_files, datasets, days_quarter_of, processed,
                   partner_files, op3_vars, resolver_vars, fail_vars,
                   run_vars, calc_vars, quarter_vars>>

\* scheme, exclusion, partner, audit and deal columns of both regions
Classify ==
    /\ pc = "classify"
    /\ df_exclusions_columns_final' =
         [g \in Regions |-> df_exclusions_columns_final_of(g, df_reporting)]
    /\ pc' = "format"
    /\ UNCHANGED <<input_vars, df_days, days_reporting, gate_vars, formatted,
                   formatted_with_exclusions, df_final, df_final_exclusion,
                   df_experiment, report, region_files, datasets,
                   days_quarter_of, processed, partner_files, op3_vars,
                   resolver_vars, fail_vars, run_vars, calc_vars, quarter_vars>>

\* formatted copies, final populations and the monthly preparation
Format ==
    /\ pc = "format"
    /\ formatted' =
         [g \in Regions |-> formatted_of(df_exclusions_columns_final[g])]
    /\ formatted_with_exclusions' =
         [g \in Regions |->
            formatted_with_exclusions_of(df_exclusions_columns_final[g])]
    /\ df_final' = [g \in Regions |-> df_final_of(df_exclusions_columns_final[g])]
    /\ df_final_exclusion' =
         [g \in Regions |-> df_final_exclusion_of(df_exclusions_columns_final[g])]
    /\ df_experiment' =
         [g \in Regions |->
            prepare_monthly_data(
                formatted_with_exclusions_of(df_exclusions_columns_final[g]), today)]
    /\ pc' = "report"
    /\ UNCHANGED <<input_vars, df_days, days_reporting, gate_vars,
                   df_exclusions_columns_final, report, region_files,
                   datasets, days_quarter_of, processed, partner_files,
                   op3_vars, resolver_vars, fail_vars, run_vars, calc_vars,
                   quarter_vars>>

\* report__us and report__ca
GenerateReports ==
    /\ pc = "report"
    /\ report' =
         [g \in Regions |->
            generate_currency_report_regional(g, df_experiment[g],
                df_final_exclusion[g], df_pg_of(df_final[g]),
                df_sbp_of(df_final[g]), df_rcs)]
    /\ pc' = "export_US"
    /\ UNCHANGED <<input_vars, df_days, days_reporting, gate_vars, class_vars,
                   region_files, datasets, days_quarter_of, processed,
                   partner_files, op3_vars, resolver_vars, fail_vars,
                   run_vars, calc_vars, quarter_vars>>

\* the export of a region that goes on without writing its workbook
ExportRegion_unwritten(g) ==
    /\ pc = IF g = "US" THEN "export_US" ELSE "export_CA"
    /\ pc' = IF g = "US" THEN "export_CA" ELSE "disty"
    /\ UNCHANGED <<input_vars, df_days, days_reporting, gate_vars, class_vars,
                   report, region_files, datasets, days_quarter_of, processed,
                   partner_files, op3_vars, resolver_vars, fail_vars,
                   run_vars, calc_vars, quarter_vars>>

\* the region workbook with its two sheets
ExportRegion(g) ==
    /\ pc = IF g = "US" THEN "export_US" ELSE "export_CA"
    /\ region_files' = region_files \cup
         {RegionWorkbook(g, report[g], create_program_summary(report[g]))}
    /\ pc' = IF g = "US" THEN "export_CA" ELSE "disty"
    /\ UNCHANGED <<input_vars, df_days, days_reporting, gate_vars, class_vars,
                   report, datasets, days_quarter_of, processed,
                   partner_files, op3_vars, resolver_vars, fail_vars,
                   run_vars, calc_vars, quarter_vars>>

\* us_datasets, ca_datasets and the Summary report details
SummarySetup ==
    /\ pc = "disty"
    /\ datasets' =
         [g \in Regions |->
            filter_and_export_disty_data(g, df_exclusions_columns_final[g])]
    /\ days_quarter_of' = [g \in Regions |-> days_quarter(df_days, today, g)]
    /\ fiscal' = FiscalCalendar(today)
    /\ pc' = "partners_US"
    /\ UNCHANGED <<input_vars, df_days, days_reporting, gate_vars, class_vars,
                   report, region_files, processed, partner_files, op3_vars,
                   resolver_vars, fail_vars, run_vars, calc_vars>>

\* one iteration of the partner loop of region g
ProcessPartner(g) ==
    /\ pc = IF g = "US" THEN "partners_US" ELSE "partners_CA"
    /\ unique_partners(df_final[g]) \ processed[g] # {}
    /\ LET rest    == unique_partners(df_final[g]) \ processed[g]
           partner == CHOOSE p \in rest : \A q \in rest : p <= q
       IN /\ processed' = [processed EXCEPT ![g] = @ \cup {partner}]
          /\ partner_files' = partner_files \cup
               PartnerWorkbooks(g, {partner}, df_final[g], df_final_exclusion[g],
                                today, df_rcs, days_reporting[g],
                                days_quarter_of[g], datasets[g])
    /\ UNCHANGED <<pc, input_vars, df_days, days_reporting, gate_vars,
                   class_vars, report, region_files, datasets,
                   days_quarter_of, op3_vars, resolver_vars, fail_vars,
                   run_vars, calc_vars, quarter_vars>>

\* the partner loop of region g has no partner left
EndPartners(g) ==
    /\ pc = IF g = "US" THEN "partners_US" ELSE "partners_CA"
    /\ unique_partners(df_final[g]) \ processed[g] = {}
    /\ pc' = IF g = "US" THEN "partners_CA" ELSE "summary2_US"
    /\ UNCHANGED <<input_vars, df_days, days_reporting, gate_vars, class_vars,
                   report, region_files, datasets, days_quarter_of, processed,
                   partner_files, op3_vars, resolver_vars, fail_vars,
                   run_vars, calc_vars, quarter_vars>>

\* Operation 3, "Process <g> partners": the Summary2 sheets of region g
UpdateSummary2(g) ==
    /\ pc = IF g = "US" THEN "summary2_US" ELSE "summary2_CA"
    /\ \E rebate \in RebateSpace :
         summary2_files' = summary2_files \cup
             Summary2Sheets(g, partner_files, rebate.tcv_partner_ids,
                            rebate.scheme_data)
    /\ pc' = IF g = "US" THEN "summary2_CA" ELSE "done"
    /\ UNCHANGED <<input_vars, df_days, days_reporting, gate_vars, class_vars,
                   report, region_files, datasets, days_quarter_of, processed,
                   partner_files, resolver_vars, fail_vars, run_vars,
                   calc_vars, quarter_vars>>

Next ==
    \/ ReadMain
    \/ \E g \in Regions : ReadReference(g)
    \/ \E g \in Regions : ReadDaysOfReporting(g)
    \/ FilterGates
    \/ Classify
    \/ Format
    \/ GenerateReports
    \/ \E g \in Regions : ExportRegion(g)
    \/ SummarySetup
    \/ \E g \in Regions : ProcessPartner(g)
    \/ \E g \in Regions : EndPartners(g)
    \/ \E g \in Regions : UpdateSummary2(g)

Spec == Init /\ [][Next]_vars

(***************************************************************************)
(* The run with partners whose loop iteration raises: the exception is     *)
(* caught by the handler of the loop body.                                 *)
(***************************************************************************)
\* an iteration whose exception is not caught: the loop of region g ends
FailPartner_uncaught(g) ==
    /\ pc = IF g = "US" THEN "partners_US" ELSE "partners_CA"
    /\ unique_partners(df_final[g]) \ processed[g] # {}
    /\ LET rest    == unique_partners(df_final[g]) \ processed[g]
           partner == CHOOSE p \in rest : \A q \in rest : p <= q
       IN /\ processed' = [processed EXCEPT ![g] = unique_partners(df_final[g])]
          /\ failed' = [failed EXCEPT ![g] = @ \cup {partner}]
    /\ UNCHANGED <<pc, input_vars, df_days, days_reporting, gate_vars,
                   class_vars, report, region_files, datasets,
                   days_quarter_of, partner_files, op3_vars, resolver_vars,
                   run_vars, calc_vars, quarter_vars>>

\* one iteration of the partner loop of region g that raises inside the try
\* block before its workbook is written: "except Exception ... continue"
FailPartner(g) ==
    /\ pc = IF g = "US" THEN "partners_US" ELSE "partners_CA"
    /\ unique_partners(df_final[g]) \ processed[g] # {}
    /\ LET rest    == unique_partners(df_final[g]) \ processed[g]
           partner == CHOOSE p \in rest : \A q \in rest : p <= q
       IN /\ processed' = [processed EXCEPT ![g] = @ \cup {partner}]
          /\ failed' = [failed EXCEPT ![g] = @ \cup {partner}]
    /\ UNCHANGED <<pc, input_vars, df_days, days_reporting, gate_vars,
                   class_vars, report, region_files, datasets,
                   days_quarter_of, partner_files, op3_vars, resolver_vars,
                   run_vars, calc_vars, quarter_vars>>

NextFail ==
    \/ Next
    \/ \E g \in Regions : FailPartner(g)

SpecFail == Init /\ [][NextFail]_vars

(***************************************************************************)
(* The reconciliation formulas on their own: a row with arbitrary amounts  *)
(* is given to the formulas of each region.                                *)
(***************************************************************************)
Amounts == (0 - MaxAmt)..MaxAmt

\* a row whose USD amounts are n, u, b, t and whose local-currency amounts
\* are the same numbers in reverse roles
CalcRow(n, u, b, t) ==
    [BaseRow EXCEPT !.NDP_TOTAL_USD = n, !.UPFRONT_DISCOUNT_AMT_USD = u,
                    !.BACKEND_DISCOUNT_AMT_USD = b, !.NET_TOTAL_USD = t,
                    !.NDP_TOTAL_LC = t, !.UPFRONT_DISCOUNT_AMT_LC = b,
                    !.BACKEND_DISCOUNT_AMT_LC = u, !.NET_TOTAL_LC = n]

InitCalc ==
    /\ pc = "calc"
    /\ today \in RunDates
    /\ InitPipeline
    /\ available_columns = <<>>
    /\ NoCall
    /\ \E n \in Amounts, u \in Amounts, b \in Amounts, t \in Amounts :
         calc_row = CalcRow(n, u, b, t)
    /\ calc_out = [g \in Regions |-> NoAudit]

\* the "<g> Calculations" block applied to calc_row
Calculate(g) ==
    /\ pc = "calc"
    /\ ~calc_out[g].done
    /\ calc_out' = [calc_out EXCEPT ![g] =
         [Delta |-> Delta(g, calc_row),
          Updated_upfront |-> Updated_upfront(g, calc_row),
          Diff |-> Diff(g, calc_row), Match |-> Match(g, calc_row),
          Match_1 |-> Match_1(g, calc_row), done |-> TRUE]]
    /\ UNCHANGED <<pc, input_vars, df_days, days_reporting, gate_vars,
                   class_vars, report, region_files, datasets,
                   days_quarter_of, processed, partner_files, op3_vars,
                   resolver_vars, fail_vars, run_vars, calc_row, quarter_vars>>

NextCalc == \E g \in Regions : Calculate(g)

SpecCalc == InitCalc /\ [][NextCalc]_vars

(***************************************************************************)
(* The schema resolver on its own: standardize_column_names is given a     *)
(* header row and then its own result.                                     *)
(***************************************************************************)
MaxCols == 3
MaxCalls == 2

\* the column names a header row of the model is made of
HeaderNames ==
    {"Comments", "NDP_TOTAL_LC", "NDP_TOTAL_USD", "NET_TOTAL_LC",
     "NET_TOTAL_US", "NET_TOTAL_US1", "NET_TOTAL_US2", "NET_TOTAL_USD",
     "Net Total Lc", "Net Total Usd", "SRC_SYS_KEY", "SRC_SYS_KY",
     "Source Key", "Src Sys Ky"}

\* header rows of at most n distinct columns, in column order
RECURSIVE HeaderRows(_)
HeaderRows(n) ==
    IF n = 0 THEN {<<>>}
    ELSE HeaderRows(n - 1) \cup
         UNION {{Append(h, c) : c \in HeaderNames \ Range(h)} :
                  h \in {x \in HeaderRows(n - 1) : Len(x) = n - 1}}

InitResolve ==
    /\ pc = "resolve"
    /\ today \in RunDates
    /\ InitPipeline
    /\ calc_row = BaseRow
    /\ calc_out = [g \in Regions |-> NoAudit]
    /\ available_columns \in HeaderRows(MaxCols)
    /\ NoCall

\* one call of standardize_column_names(df, 'main'); a later call is given
\* the data frame the call before returned
StandardizeColumnNames ==
    /\ pc = "resolve"
    /\ calls < MaxCalls
    /\ LET columns == IF calls = 0 THEN available_columns ELSE df_standardized
       IN /\ available_columns' = columns
          /\ matched_col' = [i \in DOMAIN MainFields |->
                               find_column_match(MainFields[i], columns)]
          /\ rename_map' = column_mapping(columns)
          /\ df_standardized' = standardize_column_names(columns)
    /\ calls' = calls + 1
    /\ UNCHANGED <<pc, today, main_columns, df, source_columns, df_source,
                   df_days, days_reporting, gate_vars, class_vars, report,
                   region_files, datasets, days_quarter_of, processed,
                   partner_files, op3_vars, fail_vars, run_vars, calc_vars,
                   quarter_vars>>

NextResolve == StandardizeColumnNames

SpecResolve == InitResolve /\ [][NextResolve]_vars

(***************************************************************************)
(* The outputs of a whole run as functions of the data file.               *)
(***************************************************************************)
\* df_exclusions_columns_final_<g> of a data file d
ClassifiedOf(g, d) == df_exclusions_columns_final_of(g, df_reporting_of(d))

\* report__<g> of a data file d on run date day
RegionReportOf(g, d, day) ==
    LET fin == ClassifiedOf(g, d)
    IN generate_currency_report_regional(g,
           prepare_monthly_data(formatted_with_exclusions_of(fin), day),
           df_final_exclusion_of(fin), df_pg_of(df_final_of(fin)),
           df_sbp_of(df_final_of(fin)), df_rcs_of(d))

\* the region workbook of a data file d
RegionWorkbookOf(g, d, day) ==
    RegionWorkbook(g, RegionReportOf(g, d, day),
                   create_program_summary(RegionReportOf(g, d, day)))

\* the partner workbooks of region g of a data file d
PartnerWorkbooksOf(g, d, day, days_rep, days_qtr) ==
    LET fin == ClassifiedOf(g, d)
    IN PartnerWorkbooks(g, unique_partners(df_final_of(fin)), df_final_of(fin),
                        df_final_exclusion_of(fin), day, df_rcs_of(d),
                        days_rep, days_qtr, filter_and_export_disty_data(g, fin))

\* every (scheme, product line) row written for region g so far: the region
\* sheet and the DSO DataSheet of its partners
WrittenReportRows(g) ==
    UNION {f.Report : f \in {x \in region_files : x.region = g}}
        \cup UNION {f.DSO_DataSheet : f \in {x \in partner_files : x.region = g}}

(***************************************************************************)
(* The fiscal calendar on its own, over every date of the run years.       *)
(***************************************************************************)
\* the years a run may be dated in (a leap year and a common year)
RunYears == {2024, 2025}

\* calendar.monthrange(year, month)[1]
DaysInMonth(year, month) ==
    IF month = 2 THEN (IF year % 4 = 0 THEN 29 ELSE 28)
    ELSE IF month \in {4, 6, 9, 11} THEN 30 ELSE 31

\* every value datetime.today() may have in the run years, as YYYYMMDD
DateSpace ==
    UNION {{y * 10000 + m * 100 + d : d \in 1..DaysInMonth(y, m)} :
             y \in RunYears, m \in 1..12}

InitQuarter ==
    /\ pc = "quarter"
    /\ today \in DateSpace
    /\ InitPipeline
    /\ available_columns = <<>>
    /\ NoCall
    /\ calc_row = BaseRow
    /\ calc_out = [g \in Regions |-> NoAudit]

\* the two date blocks of the script applied to the run date
FiscalQuarter ==
    /\ pc = "quarter"
    /\ fiscal' = FiscalCalendar(today)
    /\ pc' = "done"
    /\ UNCHANGED <<input_vars, df_days, days_reporting, gate_vars, class_vars,
                   report, region_files, datasets, days_quarter_of, processed,
                   partner_files, op3_vars, resolver_vars, fail_vars, run_vars,
                   calc_vars>>

NextQuarter == FiscalQuarter

SpecQuarter == InitQuarter /\ [][NextQuarter]_vars

(***************************************************************************)
(* Runs of the whole script over the same data file, run date and day      *)
(* calendars, between which the reference file of one region is replaced.  *)
(***************************************************************************)
MaxRuns == 2

\* the rule tables a reference file may hold
ReferenceSpace == {RefUS, RefCA}

\* the region workbooks and partner workbooks written for region g
FilesOfRegion(g) ==
    [region   |-> {f \in region_files : f.region = g},
     partners |-> {f \in partner_files : f.region = g}]

\* the script is started again after the reference file of region g has been
\* replaced; what the run before wrote is kept aside
Rerun(g) ==
    /\ pc = "done"
    /\ previous.runs + 1 < MaxRuns
    /\ \E t \in ReferenceSpace \ {df_source[g]} :
         df_source' = [df_source EXCEPT ![g] = t]
    /\ previous' = [runs |-> previous.runs + 1, df_source |-> df_source,
                    files |-> [h \in Regions |-> FilesOfRegion(h)]]
    /\ region_files' = {}
    /\ partner_files' = {}
    /\ summary2_files' = {}
    /\ processed' = [h \in Regions |-> {}]
    /\ pc' = "gates"
    /\ UNCHANGED <<today, main_columns, df, source_columns, df_days,
                   days_reporting, gate_vars, class_vars, report, datasets,
                   days_quarter_of, resolver_vars, fail_vars, calc_vars,
                   quarter_vars>>

NextRuns == Next \/ \E g \in Regions : Rerun(g)

SpecRuns == Init /\ [][NextRuns]_vars

(***************************************************************************)
(* Claims.                                                                 *)
(***************************************************************************)
\* the script has reached or passed the export of the region workbooks
Exported ==
    pc \in {"disty", "partners_US", "partners_CA", "summary2_US", "summary2_CA",
            "done"}

\* C1: for every region and every record that passed the gates and has a
\* non-empty scheme name, if its backend-deal code is in the region's
\* eligible-deal list then the monthly sales of its (scheme, product line)
\* row of the region report include its list price, while the Upfront and
\* Backend totals of that row leave its amounts out.
C1_DealExcludedInMonthlySalesOnly ==
    Exported =>
      \A g \in Regions :
        LET population ==
              df_combined(prepare_monthly_data(
                  {r \in df_exclusions_columns_final[g] : r.Scheme_Name # ""}, today))
        IN \A r \in {x \in population : x.PIPP_delas # NA} :
             \E row \in report[g] :
               /\ row.Program_Name = r.Scheme_Name
               /\ row.PRODUCT_LINE = r.PRODUCT_LINE
               /\ r.month_sales_col \in DOMAIN row.sales
               /\ row.sales[r.month_sales_col] =
                    SumField({x \in WithKey(population, r.Scheme_Name, r.PRODUCT_LINE) :
                                x.month_sales_col = r.month_sales_col}, NDP_TOTAL(g))
               /\ row.Upfront =
                    SumField({x \in WithKey(population, r.Scheme_Name, r.PRODUCT_LINE) :
                                x.PIPP_delas = NA}, "Updated_upfront")
               /\ row.Backend =
                    SumField({x \in WithKey(population, r.Scheme_Name, r.PRODUCT_LINE) :
                                x.PIPP_delas = NA}, BACKEND_DISCOUNT_AMT(g))

\* a deal-excluded US record of the current quarter has been classified and
\* the US report has been written
C1_Witness ==
    /\ Exported
    /\ \E r \in df_exclusions_columns_final["US"] :
         r.PIPP_delas = "DEAL7" /\ r.Scheme_Name = "ComputeStandard"
    /\ \E f \in region_files : f.region = "US"

\* C2: a record that passed the gates but whose distributor id is not an
\* eligible location of the region is in no partner report of the region,
\* yet the region's consolidated report has its (scheme, product line) row
\* and that row's sales total covers the record's list price.
C2_UntaggedKeptForRegionTotals ==
    Exported =>
      \A g \in Regions :
        \A r \in {x \in df_reporting :
                    /\ x.DISTRIBUTOR_PARTY_ID \notin ColumnValues(Reference(g), "LOC_ID")
                    /\ x.PRODUCT_LINE \in ColumnValues(Reference(g), "PL")
                    /\ x.DATA_TYPE = "DS"
                    /\ x.BACKEND_DEAL_1 = NA
                    /\ get_fiscal_quarter(x.FISCAL_MONTH % 100)
                         = get_fiscal_quarter(MonthOf(today))} :
          /\ \A f \in partner_files :
               f.region = g => f.partner # r.DISTRIBUTOR_PARTY_ID
          /\ \E row \in report[g] :
               /\ row.PRODUCT_LINE = r.PRODUCT_LINE
               /\ row.Program_Name \in
                    {df_extend_columns_row(g, r).Scheme_Name, "ServicesFocus",
                     "ServicesStandard"}
               /\ row.NDP_Sales_TSO >= r[NDP_TOTAL(g)]

\* a record of a distributor that is no eligible US location passed the
\* gates and the US report has been written
C2_Witness ==
    /\ Exported
    /\ \E r \in df_reporting :
         r.DISTRIBUTOR_PARTY_ID \notin ColumnValues(Reference("US"), "LOC_ID")
    /\ \E f \in region_files : f.region = "US"

\* the calendar as read has a row dated exactly the run date
HasEntry(cal, day) ==
    cal.readable /\ Len(cal.columns) >= 2 /\ MatchingRows(cal, day) # {}

\* the calendar was read, has its two columns and no row dated the run date
HasNoEntry(cal, day) ==
    cal.readable /\ Len(cal.columns) >= 2 /\ MatchingRows(cal, day) = {}

\* C3: when the calendar of one region has no entry dated the run date and
\* the calendar of the other region has one, the run that stopped on the
\* first has written the region report of the other.
C3_MissingEntryHaltsOnlyThatRegion ==
    \A g \in Regions, h \in Regions :
      (pc = "exit" /\ HasNoEntry(df_days[g], today) /\ HasEntry(df_days[h], today))
        => \E f \in region_files : f.region = h

\* the US calendar has no entry for the run date, the CA calendar has one,
\* and the run has ended
C3_Witness ==
    /\ pc = "exit"
    /\ HasNoEntry(df_days["US"], today)
    /\ HasEntry(df_days["CA"], today)
    /\ df # {}

\* C4: whenever a region workbook or a partner workbook of a region has been
\* written, the region's days of reporting is the value of a calendar row
\* dated exactly the run date, and so is the value in every rebate row.
C4_DaysOfReportingFromExactEntry ==
    \A g \in Regions :
      ((\E f \in region_files : f.region = g) \/ (\E f \in partner_files : f.region = g))
        => /\ HasEntry(df_days[g], today)
           /\ \E i \in MatchingRows(df_days[g], today) :
                days_reporting[g] = df_days[g].rows[i][2]
           /\ \A f \in partner_files :
                f.region = g =>
                  \A e \in f.Summary :
                    e.New_Name # <<>> =>
                      \E i \in MatchingRows(df_days[g], today) :
                        e.Days_of_Reporting = df_days[g].rows[i][2]

\* a partner workbook whose rebate rows carry 0 days of reporting was
\* written for a region whose calendar could not be read
C4_Witness ==
    \E f \in partner_files :
      /\ ~df_days[f.region].readable
      /\ \E e \in f.Summary : e.New_Name # <<>> /\ e.Days_of_Reporting = 0

\* C5: when a required field of the main file or of a reference file has no
\* match, the run has stopped: the gates have not run and no workbook has
\* been written.
C5_UnresolvedFieldStopsRun ==
    (\/ /\ main_columns # <<>>
        /\ \E f \in RequiredMain : find_column_match(f, main_columns) = NA
     \/ \E g \in Regions :
          /\ source_columns[g] # <<>>
          /\ \E f \in Range(RequiredReference) : f \notin Range(source_columns[g]))
      => /\ pc = "exit"
         /\ df_reporting = {} /\ df_rcs = {}
         /\ \A g \in Regions : df_exclusions_columns_final[g] = {} /\ report[g] = {}
         /\ region_files = {} /\ partner_files = {}

\* a data file with reportable rows and a header that resolves no source
\* system key ended the run
C5_Witness ==
    /\ pc = "exit"
    /\ find_column_match("SRC_SYS_KY", main_columns) = NA
    /\ find_column_match("NET_TOTAL_USD", main_columns) # NA
    /\ \E r \in df : r = [BaseRow EXCEPT !.INVOICE_NUMBER = r.INVOICE_NUMBER]

\* a record fails one of gates 1-4
FailsGate(r) ==
    \/ r.SRC_SYS_KY \notin {2032, 2866}
    \/ r.CROSS_SOURCED = "Y"
    \/ r.BDE_FLAG = "Y"
    \/ r.MSP_FLAG = "T"

\* C6: the workbooks of a finished run are those of the same data file
\* without its records that fail one of gates 1-4, side-channel records
\* included.
C6_GateFailuresAreTerminal ==
    pc = "done" =>
      LET kept == {r \in df : ~FailsGate(r)}
      IN /\ region_files = {RegionWorkbookOf(g, kept, today) : g \in Regions}
         /\ partner_files =
              UNION {PartnerWorkbooksOf(g, kept, today, days_reporting[g],
                                        days_quarter_of[g]) : g \in Regions}

\* a finished run whose data file had a side-channel record failing a gate
\* next to a reported record with the same product line
C6_Witness ==
    /\ pc = "done"
    /\ \E r \in df : FailsGate(r) /\ r.REPORTING_TYPE = "RCS"
    /\ \E f \in partner_files : f.DSO_DataSheet # {}

\* a record of df_reporting whose product line is no PL of the region
Unmapped(g, r) ==
    /\ ~FailsGate(r)
    /\ r.REPORTING_TYPE # "RCS"
    /\ r.PRODUCT_LINE \notin ColumnValues(Reference(g), "PL")

\* C7: per region, a surviving record whose product line is not in the
\* region's reference rules has an empty scheme name, and the workbooks of
\* the region are those of the data file without such records.
C7_UnmappedProductLineNotReported ==
    /\ \A g \in Regions : \A r \in df_exclusions_columns_final[g] :
         r.PRODUCT_LINE \notin ColumnValues(Reference(g), "PL")
            => r.Scheme_Name = ""
    /\ pc = "done" =>
         \A g \in Regions :
           LET kept == {r \in df : ~Unmapped(g, r)}
           IN /\ {f \in region_files : f.region = g}
                   = {RegionWorkbookOf(g, kept, today)}
              /\ {f \in partner_files : f.region = g}
                   = PartnerWorkbooksOf(g, kept, today, days_reporting[g],
                                        days_quarter_of[g])

\* a finished run with a record that is unmapped in CA and reported in US,
\* next to a record that CA reports
C7_Witness ==
    /\ pc = "done"
    /\ \E r \in df_exclusions_columns_final["CA"] :
         r.PRODUCT_LINE = "X1" /\ r.Scheme_Name = ""
    /\ \E f \in region_files :
         f.region = "US" /\ \E row \in f.Report : row.PRODUCT_LINE = "X1"
    /\ \E f \in partner_files : f.region = "CA" /\ f.DSO_DataSheet # {}

\* C8: in every region and partner report, each row has Total Exclusions =
\* Other Exclusions Net Sales + OEM Exclusions + LA Sales and Total eligible
\* DSO Deal@Net = Total Deal @Net Sales Out - Total Exclusions, in cents.
C8_ExclusionTotalsAddUp ==
    \A g \in Regions : \A row \in WrittenReportRows(g) :
      /\ row.Total_Exclusions =
           row.Other_Exclusions_Net_Sales + row.OEM_Exclusions + row.LA_Sales
      /\ "Total Deal @Net Sales Out" \notin row.missing
      /\ row.Total_eligible_DSO_Deal_Net =
           row.Total_Deal_Net_Sales_Out - row.Total_Exclusions

\* a written report row with an LA Sales amount and an exclusion amount
C8_Witness ==
    \E g \in Regions : \E row \in WrittenReportRows(g) :
      /\ row.LA_Sales > 0
      /\ row.Total_Exclusions > row.LA_Sales
      /\ row.Total_eligible_DSO_Deal_Net # row.Total_Deal_Net_Sales_Out

\* the four amounts of a row agree in the currency of region g
Consistent(g, r) ==
    r[NDP_TOTAL(g)] - r[UPFRONT_DISCOUNT_AMT(g)] - r[BACKEND_DISCOUNT_AMT(g)]
        = r[NET_TOTAL(g)]

\* C9: for every row whose list price - upfront discount - backend discount
\* equals its net total in the region's currency, the Diff and Match_1 the
\* region computes are zero.
C9_ConsistentRowsReconcile ==
    \A g \in Regions :
      (calc_out[g].done /\ Consistent(g, calc_row))
        => calc_out[g].Diff = 0 /\ calc_out[g].Match_1 = 0

\* the CA formulas ran on a row that is consistent in local currency, not
\* in USD, with a non-zero net total
C9_Witness ==
    /\ calc_out["CA"].done
    /\ Consistent("CA", calc_row)
    /\ ~Consistent("US", calc_row)
    /\ calc_row.NET_TOTAL_LC # 0
    /\ calc_row.UPFRONT_DISCOUNT_AMT_LC # 0

\* C10: every program of a partner's report has a PG and an SBP rebate row;
\* its rate is the table's rate of '{program}_{suffix}' (5 per-mille for
\* ComputeStandard_PG), 0 for a key the table lacks, and its amount is the
\* coverage sales times the rate.
C10_RateLookupDefaultsToZero ==
    \A f \in partner_files :
      \A p \in {row.Program_Name : row \in f.DSO_DataSheet} \ {""} :
        \A suffix \in {"PG", "SBP"} :
          \E e \in f.Summary :
            LET rows == {row \in f.DSO_DataSheet : row.Program_Name = p}
                coverage == IF suffix = "PG"
                            THEN SumField(rows, "PG_Coverage_Sales")
                            ELSE SumField(rows, "SBP_Coverage_Sales")
                rate == CASE p \in {"ComputeStandard", "StorageStandard"}
                               -> IF suffix = "PG" THEN 5 ELSE 55
                          [] p \in {"ComputeFocus", "StorageFocus"}
                               -> IF suffix = "PG" THEN 35 ELSE 65
                          [] p = "ServicesStandard"
                               -> IF suffix = "PG" THEN 20 ELSE 40
                          [] p = "ServicesFocus"
                               -> IF suffix = "PG" THEN 40 ELSE 60
                          [] OTHER -> 0
            IN /\ e.New_Name = <<p, suffix>>
               /\ e.Program_Pct = rate
               /\ e.Net_QTD_Performance = coverage
               /\ e.Amount = coverage * rate
               /\ e.Total_Rebate_Amount = e.Amount

\* a partner workbook with a ComputeStandard_PG row at 5 per-mille and a
\* row of a program the table lacks, with coverage sales and amount 0
C10_Witness ==
    \E f \in partner_files :
      /\ \E e \in f.Summary :
           /\ e.New_Name = <<"ComputeStandard", "PG">>
           /\ e.Program_Pct = 5 /\ e.Amount > 0
      /\ \E e \in f.Summary :
           /\ e.New_Name = <<"ComputeAttach", "SBP">>
           /\ e.Net_QTD_Performance > 0 /\ e.Program_Pct = 0 /\ e.Amount = 0

(***************************************************************************)
(* C11: in every rebate allocation row (the Summary rows and the Summary2  *)
(* rows of the partner workbooks), when Days of Reporting is 0 the two     *)
(* projected fields are blank, and when it is positive they are            *)
(* performance x days in quarter / days of reporting and amount x days in  *)
(* quarter / days of reporting.                                            *)
(***************************************************************************)
C11_ProjectedBlankWithoutDays ==
    \A e \in UNION ({f.Summary : f \in partner_files}
                    \cup {f.Summary2 : f \in summary2_files}) :
      IF e.Days_of_Reporting = 0
      THEN /\ e.Net_Projected_Performance = Blank
           /\ e.Projected_Rebate_Amount = Blank
      ELSE /\ e.Net_Projected_Performance =
                [num |-> e.Net_QTD_Performance * e.Days_in_Quarter,
                 den |-> e.Days_of_Reporting]
           /\ e.Projected_Rebate_Amount =
                [num |-> e.Total_Rebate_Amount * e.Days_in_Quarter,
                 den |-> e.Days_of_Reporting]

\* a partner workbook whose Summary row has sales, Days of Reporting 0 and a
\* projected performance that is the number 0, next to a Summary2 row whose
\* projected performance is blank
C11_Witness ==
    \E f \in partner_files, f2 \in summary2_files :
      /\ f2.region = f.region /\ f2.partner = f.partner
      /\ \E e \in f.Summary :
           /\ e.Days_of_Reporting = 0 /\ e.Net_QTD_Performance > 0
           /\ e.Net_Projected_Performance = [num |-> 0, den |-> 1]
      /\ \E e \in f2.Summary2 :
           /\ e.Days_of_Reporting = 0
           /\ e.Net_Projected_Performance = Blank

(***************************************************************************)
(* C12: the schema resolver is idempotent: standardize_column_names given  *)
(* the data frame it has already standardized maps every resolved          *)
(* canonical name to itself, renames no column to another canonical field  *)
(* and leaves the column names unchanged.                                  *)
(***************************************************************************)
C12_ResolverIdempotent ==
    calls = 2 =>
      /\ \A c \in DOMAIN rename_map : rename_map[c] = c
      /\ df_standardized = available_columns

\* a second call that renames a canonical column the first call produced to
\* another canonical field
C12_Witness ==
    /\ calls = 2
    /\ \E c \in DOMAIN rename_map :
         /\ c \in Range(MainFields)
         /\ rename_map[c] # c
         /\ rename_map[c] \in Range(df_standardized)

(***************************************************************************)
(* C13: a partner report of a region is written only after that region's   *)
(* consolidated report (aggregated table and program summary) has been     *)
(* completely written, and the region workbooks are not written again once *)
(* a partner workbook exists.                                              *)
(***************************************************************************)
C13_PartnerWritesFollowRegionWrites ==
    [][/\ \A f \in (partner_files' \ partner_files)
                     \cup (summary2_files' \ summary2_files) :
            \E r \in region_files :
              /\ r.region = f.region
              /\ r.Report = report[f.region]
              /\ r.Program_Summary = create_program_summary(report[f.region])
       /\ partner_files # {} => region_files' = region_files]_vars

\* partner workbooks of both regions written, each region workbook being
\* there with a non-empty aggregated table
C13_Witness ==
    /\ \A g \in Regions :
         /\ \E f \in partner_files : f.region = g
         /\ \E r \in region_files : r.region = g /\ r.Report # {}
    /\ summary2_files # {}

(***************************************************************************)
(* C14: when the report of one partner fails, only that partner is halted: *)
(* every other partner of the region and all partners of the other region  *)
(* get their workbooks, and the region workbooks are left as written.      *)
(***************************************************************************)
C14_PartnerFailureIsIsolated ==
    pc \in {"summary2_US", "summary2_CA", "done"} =>
      /\ \A g \in Regions :
           {f \in partner_files : f.region = g} =
             {wb \in PartnerWorkbooksOf(g, df, today, days_reporting[g],
                                        days_quarter_of[g]) :
                wb.partner \notin failed[g]}
      /\ region_files = {RegionWorkbookOf(g, df, today) : g \in Regions}

\* a finished run in which a US partner failed, the other US partner and a CA
\* partner have their workbooks
C14_Witness ==
    /\ pc = "done"
    /\ failed["US"] # {}
    /\ \E f \in partner_files : f.region = "US" /\ f.DSO_DataSheet # {}
    /\ \E f \in partner_files : f.region = "CA" /\ f.DSO_DataSheet # {}

(***************************************************************************)
(* C15: a record whose distributor-partner tag cannot be converted to a    *)
(* number has the tag coerced to a missing marker and stays in the         *)
(* region's population: every record that survived the gates and got a     *)
(* tag is in the classified population of the region.                      *)
(***************************************************************************)
C15_CoercionKeepsTheRecord ==
    pc \notin {"read_main", "reference_CA", "reference_US", "days_CA",
               "days_US", "gates", "classify", "exit"} =>
      \A g \in Regions : \A r \in df_reporting :
        DistyPartnersText(g, r) # <<>> =>
          \E x \in df_exclusions_columns_final[g] :
            x.INVOICE_NUMBER = r.INVOICE_NUMBER

\* a classified US population that lacks a tagged record whose tag is not a
\* number, next to a tagged record that it has
C15_Witness ==
    /\ pc = "format"
    /\ \E r \in df_reporting :
         /\ DistyPartnersText("US", r) # <<>>
         /\ r.DISTRIBUTOR_PARTY_ID \in TextIds
         /\ \A x \in df_exclusions_columns_final["US"] :
              x.INVOICE_NUMBER # r.INVOICE_NUMBER
    /\ df_exclusions_columns_final["US"] # {}

\* C16: two runs over the same data file, run date and day calendars that
\* differ only in the reference rules of one region write identical region
\* and partner reports for every other region: replacing the CA reference
\* file leaves the US reports as they were, and replacing the US reference
\* file leaves the CA reports as they were.
C16_RegionsDoNotInterfere ==
    \A g \in Regions :
        (pc = "done" /\ previous.runs > 0
           /\ previous.df_source[g] = df_source[g])
        => FilesOfRegion(g) = previous.files[g]

\* a second run made with other CA rules has ended; the US run writes report
\* rows and partner workbooks, and the CA reports are not what they were
C16_Witness ==
    /\ pc = "done"
    /\ previous.runs > 0
    /\ previous.df_source["US"] = df_source["US"]
    /\ previous.df_source["CA"] # df_source["CA"]
    /\ \E f \in FilesOfRegion("US").region : f.Report # {}
    /\ FilesOfRegion("US").partners # {}
    /\ FilesOfRegion("CA").region # previous.files["CA"].region
    /\ FilesOfRegion("CA").partners # previous.files["CA"].partners

\* the aliases of field t, by position, that are literally among the columns
LiteralAliases(t, cols) ==
    {k \in DOMAIN Variants(t) : Variants(t)[k] \in cols}

\* the columns whose similarity to name is at least cutoff (in thousandths)
Similar(name, cols, cutoff) == {x \in cols : Ratio(x, name) >= cutoff}

\* the aliases of field t, by position, that have a column similar at 0.8
NearAliases(t, cols) ==
    {k \in DOMAIN Variants(t) : Similar(Variants(t)[k], cols, 800) # {}}

\* m is one of the columns of near most similar to name
MostSimilar(m, name, near) ==
    m \in near /\ \A y \in near : Ratio(y, name) <= Ratio(m, name)

\* which of the three tiers decides field t over the columns cols (0: none)
Tier(t, cols) ==
    IF LiteralAliases(t, cols) # {} THEN 1
    ELSE IF NearAliases(t, cols) # {} THEN 2
    ELSE IF Similar(t, cols, 700) # {} THEN 3
    ELSE 0

\* C17: for every canonical field, a call of the resolver returns (1) the
\* first alias in listed order that is literally among the input columns;
\* otherwise (2) for the first alias in listed order that has an input column
\* of similarity at least 0.8, a most similar such column; otherwise (3) an
\* input column most similar to the canonical name among those of similarity
\* at least 0.7; otherwise no match. A literal alias wins over any
\* approximate match.
C17_ThreeTierMatch ==
    calls > 0 =>
      \A i \in DOMAIN MainFields :
        LET t    == MainFields[i]
            cols == Range(available_columns)
            m    == matched_col[i]
            min(S) == CHOOSE k \in S : \A j \in S : k <= j
        IN CASE Tier(t, cols) = 1 ->
                  m = Variants(t)[min(LiteralAliases(t, cols))]
             [] Tier(t, cols) = 2 ->
                  LET alias == Variants(t)[min(NearAliases(t, cols))]
                  IN MostSimilar(m, alias, Similar(alias, cols, 800))
             [] Tier(t, cols) = 3 ->
                  MostSimilar(m, t, Similar(t, cols, 700))
             [] OTHER -> m = NA

\* one call in which a field is resolved by a literal alias although an
\* earlier alias has a similar column, another by an approximate alias
\* match, another by its canonical name only, and another is not matched
C17_Witness ==
    /\ calls > 0
    /\ \E i \in DOMAIN MainFields :
         /\ Tier(MainFields[i], Range(available_columns)) = 1
         /\ \E k \in NearAliases(MainFields[i], Range(available_columns)) :
              \A j \in LiteralAliases(MainFields[i], Range(available_columns)) :
                 k < j
         /\ matched_col[i] \in Range(available_columns)
    /\ \E i \in DOMAIN MainFields :
         /\ Tier(MainFields[i], Range(available_columns)) = 2
         /\ matched_col[i] \notin Range(Variants(MainFields[i]))
    /\ \E i \in DOMAIN MainFields :
         /\ Tier(MainFields[i], Range(available_columns)) = 3
         /\ matched_col[i] # NA
    /\ \E i \in DOMAIN MainFields :
         /\ Tier(MainFields[i], Range(available_columns)) = 0
         /\ matched_col[i] = NA

\* the position of the first column named x in the header
Position(x, header) ==
    CHOOSE k \in DOMAIN header :
        header[k] = x /\ \A j \in DOMAIN header : header[j] = x => k <= j

\* the columns that tie with m, the column returned for field t, on the
\* similarity that decided the match
TiedWith(t, m, cols) ==
    LET min(S) == CHOOSE k \in S : \A j \in S : k <= j
        name   == IF Tier(t, cols) = 2
                  THEN Variants(t)[min(NearAliases(t, cols))] ELSE t
    IN IF Tier(t, cols) \in {2, 3}
       THEN {y \in cols : Ratio(y, name) = Ratio(m, name)}
       ELSE {}

\* C18: schema resolution is reproducible with stable tie-breaking:
\* resolving the header of a call again yields the rename map of that call,
\* and when two or more input columns are equally similar to the alias (or
\* to the canonical name) that decides a field, the column returned is the
\* one that comes first in the input column order.
C18_TiesGoToFirstColumn ==
    calls > 0 =>
      /\ rename_map = column_mapping(available_columns)
      /\ \A i \in DOMAIN MainFields :
           \A y \in TiedWith(MainFields[i], matched_col[i],
                             Range(available_columns)) :
              Position(matched_col[i], available_columns)
                  <= Position(y, available_columns)

\* a call in which two columns are equally similar to the name that decides
\* a field and the column returned is the later of the two
C18_Witness ==
    /\ calls > 0
    /\ \E i \in DOMAIN MainFields :
         \E y \in TiedWith(MainFields[i], matched_col[i],
                           Range(available_columns)) :
            /\ y # matched_col[i]
            /\ Position(y, available_columns)
                  < Position(matched_col[i], available_columns)

\* the text starts with "Complete Care (excluding MS & GL)"
StartsWithCompleteCareExcluding(s) ==
    s \in {"Complete Care (excluding MS & GL) 24x7"}

\* the scheme name C19 gives a Services row
ReclassifiedScheme(r) ==
    IF r.PN_Standalone \in {"Focus standalone", "Standard standalone"}
    THEN r.Scheme_Name
    ELSE IF r.PN_Standalone \in {NA, ""} /\ r.Common_PN_PL = "Common PL"
    THEN IF /\ StartsWithOperationalService(r.Point_Next_Portfolio_Mapping_1)
            /\ StartsWithCompleteCareExcluding(r.Point_Next_Portfolio_Mapping_2)
         THEN "ServicesFocus"
         ELSE IF /\ r.Point_Next_Portfolio_Mapping_1 \notin {NA, ""}
                 /\ r.Point_Next_Portfolio_Mapping_2 \notin {NA, ""}
                 /\ ~StartsWithCompleteCareExcluding(r.Point_Next_Portfolio_Mapping_2)
         THEN "ServicesStandard"
         ELSE r.Scheme_Name
    ELSE r.Scheme_Name

\* the Services rows given to the report of region g
ServicesRows(g) ==
    {r \in df_experiment[g] : /\ ContainsServices(r.Scheme_Name)
                              /\ r.DATA_TYPE \in {"DS", "Orders", "S4DOR"}}

\* C19: Services reclassification. In the report of a region every Services
\* row is counted under this scheme name: its own when its standalone tag is
\* "Focus standalone" or "Standard standalone"; with no standalone tag and
\* common-product-line tag "Common PL", "ServicesFocus" when mapping-1
\* starts with "Operational Service" and mapping-2 starts with "Complete
\* Care (excluding MS & GL)", else "ServicesStandard" when both mapping
\* fields are non-empty and mapping-2 does not start with "Complete Care
\* (excluding MS & GL)"; its own in every other case.
C19_ServicesReclassification ==
    (pc \in {"export_US", "export_CA"} \/ Exported) =>
      \A g \in Regions :
        /\ \A r \in ServicesRows(g) :
             \E row \in report[g] :
                /\ row.Program_Name = ReclassifiedScheme(r)
                /\ row.PRODUCT_LINE = r.PRODUCT_LINE
        /\ \A row \in report[g] :
             ContainsServices(row.Program_Name) =>
               \E r \in ServicesRows(g) :
                  /\ row.Program_Name = ReclassifiedScheme(r)
                  /\ row.PRODUCT_LINE = r.PRODUCT_LINE

\* the US report is made from a Services row with no standalone tag, tag
\* "Common PL", mapping-1 "Operational Service Plus" and a mapping-2 that
\* starts with "Complete Care (excluding MS & GL)", and counts it under
\* "ServicesStandard"
C19_Witness ==
    /\ pc = "done"
    /\ \E r \in ServicesRows("US") :
         /\ r.PN_Standalone = NA
         /\ r.Common_PN_PL = "Common PL"
         /\ ReclassifiedScheme(r) = "ServicesFocus"
    /\ \A row \in report["US"] : row.Program_Name # "ServicesFocus"
    /\ \E row \in report["US"] : row.Program_Name = "ServicesStandard"

\* the record is in the Compute/Storage subset as C20 describes it
InComputeStorageSubset(r) ==
    \/ ContainsComputeOrStorage(r.Scheme_Name) /\ r.DATA_TYPE = "DS"
    \/ r.DATA_TYPE \in {"Orders", "S4DOR"} /\ r.PRODUCT_LINE = "N3"

\* the record is in the Services subset as C20 describes it
InServicesSubset(r) ==
    ContainsServices(r.Scheme_Name) /\ r.DATA_TYPE \in {"DS", "Orders", "S4DOR"}

\* the record is listed in the Exclusions Data of its partner as a row of
\* one of the given subsets
ListedAs(g, r, subsets) ==
    \E p \in DOMAIN datasets[g] : \E e \in datasets[g][p] :
        e.INVOICE_NUMBER = r.INVOICE_NUMBER /\ e.operand \in subsets

\* C20: a classified record (here: one with an exclusion level, whose subset
\* shows in its partner's Exclusions Data) is in the Compute/Storage subset
\* exactly when its scheme name contains "Compute" or "Storage" and its data
\* type is 'DS', or its data type is 'Orders' or 'S4DOR' and its product
\* line is 'N3'; it is in the Services subset exactly when its scheme name
\* contains "Services" and its data type is 'DS', 'Orders' or 'S4DOR'.
C20_SubsetMembership ==
    pc \in {"partners_US", "partners_CA", "summary2_US", "summary2_CA", "done"} =>
      \A g \in Regions : \A r \in df_exclusions_columns_final[g] :
        r.Exclusions # NA =>
          /\ InComputeStorageSubset(r)
                <=> ListedAs(g, r, {"compute_storage_base",
                                    "compute_storage_orders_n3"})
          /\ InServicesSubset(r) <=> ListedAs(g, r, {"services"})

\* an order record of product line N3 with an exclusion level that CA, where
\* N3 is a Compute line, lists as a Compute/Storage row, and that US, where
\* N3 is a Services line, lists as a Services row only
C20_Witness ==
    /\ pc = "done"
    /\ \E r \in df_exclusions_columns_final["CA"] :
         /\ r.PRODUCT_LINE = "N3" /\ r.DATA_TYPE = "Orders"
         /\ ListedAs("CA", r, {"compute_storage_orders_n3"})
    /\ \E r \in df_exclusions_columns_final["US"] :
         /\ r.PRODUCT_LINE = "N3" /\ r.DATA_TYPE = "Orders"
         /\ r.Exclusions # NA
         /\ ListedAs("US", r, {"services"})
         /\ ~ListedAs("US", r, {"compute_storage_base",
                                 "compute_storage_orders_n3"})

\* the records of d, by invoice number, in the Compute/Storage subset
ComputeStorageRecords(d) ==
    {r.INVOICE_NUMBER : r \in compute_storage_filtered_base(d)
                              \cup compute_storage_orders_n3(d)}

\* the records of d, by invoice number, in the Services subset
ServicesRecords(d) == {r.INVOICE_NUMBER : r \in services_filtered(d)}

\* C21: for the population given to the report builder of each region, the
\* Compute/Storage subset and the Services subset are disjoint: no record is
\* in both, and the combined population that feeds the pivot and the
\* upfront/backend sums has one row per record of the two subsets.
C21_SubsetsAreDisjoint ==
    (pc \in {"export_US", "export_CA"} \/ Exported) =>
      \A g \in Regions :
        /\ ComputeStorageRecords(df_experiment[g])
              \cap ServicesRecords(df_experiment[g]) = {}
        /\ Cardinality(df_combined(df_experiment[g]))
              = Cardinality(ComputeStorageRecords(df_experiment[g])
                              \cup ServicesRecords(df_experiment[g]))

\* a US report made from one record whose scheme name is "ComputeServices":
\* the record is in both subsets and its list price is summed twice
C21_Witness ==
    /\ pc = "done"
    /\ \E r \in df_experiment["US"] :
         /\ df_experiment["US"] = {r}
         /\ r.Scheme_Name = "ComputeServices"
         /\ r.INVOICE_NUMBER \in ComputeStorageRecords(df_experiment["US"])
         /\ r.INVOICE_NUMBER \in ServicesRecords(df_experiment["US"])
         /\ \E row \in report["US"] :
              /\ row.Program_Name = "ComputeServices"
              /\ row.NDP_Sales_TSO = 2 * r.NDP_TOTAL_USD

\* the year, month and day of a date
YearOf(day) == day \div 10000
DayOfMonth(day) == day % 100

\* the fiscal quarter C22 gives a month
QuarterOfMonth(month) ==
    CASE month \in {11, 12, 1} -> "Q1"
      [] month \in {2, 3, 4}   -> "Q2"
      [] month \in {5, 6, 7}   -> "Q3"
      [] month \in {8, 9, 10}  -> "Q4"

\* the first month of a fiscal quarter, and the last day of its third month
FirstMonth(q) ==
    CASE q = "Q1" -> 11 [] q = "Q2" -> 2 [] q = "Q3" -> 5 [] q = "Q4" -> 8
LastDay(q) ==
    CASE q = "Q1" -> 131 [] q = "Q2" -> 430 [] q = "Q3" -> 731 [] q = "Q4" -> 1031

\* C22: for every run date the fiscal calendar gives Q1 for November to
\* January, Q2 for February to April, Q3 for May to July and Q4 for August
\* to October, with start <= run date <= end, start the first day of the
\* quarter's first month and end the last day of its third month (Q1 runs
\* from 1 November of a year to 31 January of the next); the label that
\* filters the records and the start and end dates denote the same quarter.
C22_FiscalCalendar ==
    fiscal # NoQuarter =>
      LET q == fiscal.current_fq
      IN /\ q = QuarterOfMonth(MonthOf(today))
         /\ fiscal.start_date <= today /\ today <= fiscal.end_date
         /\ fiscal.start_date % 10000 = FirstMonth(q) * 100 + 1
         /\ fiscal.end_date % 10000 = LastDay(q)
         /\ YearOf(fiscal.end_date) - YearOf(fiscal.start_date)
               = IF q = "Q1" THEN 1 ELSE 0
         /\ QuarterOfMonth(MonthOf(fiscal.start_date)) = q
         /\ QuarterOfMonth(MonthOf(fiscal.end_date)) = q

\* the calendar of a run dated in January: its quarter started in November
\* of the year before
C22_Witness ==
    /\ fiscal # NoQuarter
    /\ MonthOf(today) = 1
    /\ fiscal.current_fq = "Q1"
    /\ YearOf(fiscal.start_date) = YearOf(today) - 1
    /\ fiscal.end_date = YearOf(today) * 10000 + 131

\* the days-of-reporting values of the entries of a calendar: the cells the
\* exact-date lookup reads
EntryDays(cal) == {cal.rows[i][2] : i \in 1..Len(cal.rows)}

\* C23: for each region that passed the calendar lookup, days-in-quarter is
\* the maximum of the days-of-reporting values of all entries of that
\* region's calendar, and so is at least the region's days of reporting.
C23_DaysInQuarterIsCalendarMaximum ==
    pc \in {"partners_US", "partners_CA", "summary2_US", "summary2_CA", "done"} =>
      \A g \in Regions :
        HasEntry(df_days[g], today) =>
          /\ days_quarter_of[g] \in EntryDays(df_days[g])
          /\ \A d \in EntryDays(df_days[g]) : d <= days_quarter_of[g]
          /\ days_quarter_of[g] >= days_reporting[g]

\* a finished run in which the US calendar has an entry for the run date,
\* the CA calendar could not be read, and the US days-in-quarter is not a
\* value of the US calendar
C23_Witness ==
    /\ pc = "done"
    /\ HasEntry(df_days["US"], today)
    /\ ~df_days["CA"].readable
    /\ days_reporting["US"] \in EntryDays(df_days["US"])
    /\ days_quarter_of["US"] \notin EntryDays(df_days["US"])

\* every report written so far: the region reports and the partner reports
ReportsWritten ==
    {f.Report : f \in region_files} \cup {f.DSO_DataSheet : f \in partner_files}

\* C24: every report of the report builder, as built and as written after
\* its merges (upfront/backend, exclusions, OEM, LA Sales, PG and SBP
\* coverage), has at most one row per (Program Name, product line): no
\* merge multiplies report rows.
C24_OneRowPerKey ==
    \A rep \in ReportsWritten \cup {report[g] : g \in Regions} :
      \A a \in rep, b \in rep :
        (a.Program_Name = b.Program_Name /\ a.PRODUCT_LINE = b.PRODUCT_LINE)
           => a = b

\* a written report with a row whose LA Sales merges the side-channel
\* records of two distributors for one product line
C24_Witness ==
    \E rep \in ReportsWritten : \E row \in rep :
      /\ Cardinality(row.LA_Sales_rows) = 2
      /\ Cardinality({r.DISTRIBUTOR_PARTY_ID : r \in df_rcs}) = 2
      /\ row.LA_Sales > 0

\* a column of a report counts each of its records once: its sum over the
\* report rows is the net total of the records whose product line is in the
\* report
CountedOnce(g, rep, col, records) ==
    SumField(rep, col) =
      SumField({r \in records : r.PRODUCT_LINE \in {row.PRODUCT_LINE : row \in rep}},
               NET_TOTAL(g))

\* C25: in every region report written, the sums of PG Coverage Sales, SBP
\* Coverage Sales, Other Exclusions, OEM Exclusions and LA Sales over the
\* report rows equal the net totals of the records that feed them and whose
\* product line is in the report: no record is counted twice, also when a
\* product line appears under two scheme names.
C25_NoDoubleCounting ==
    \A f \in region_files :
      LET g == f.region
      IN /\ CountedOnce(g, f.Report, "PG_Coverage_Sales", df_pg_of(df_final[g]))
         /\ CountedOnce(g, f.Report, "SBP_Coverage_Sales", df_sbp_of(df_final[g]))
         /\ CountedOnce(g, f.Report, "Other_Exclusions_Net_Sales",
                        {r \in df_final_exclusion[g] : r.Exclusions # "OEM"})
         /\ CountedOnce(g, f.Report, "OEM_Exclusions",
                        {r \in df_final_exclusion[g] : r.Exclusions = "OEM"})
         /\ CountedOnce(g, f.Report, "LA_Sales", df_rcs)

\* a region report written with one product line under two scheme names and
\* SBP-tagged records of that product line, whose net total the SBP Coverage
\* Sales column holds twice
C25_Witness ==
    \E f \in region_files : \E a \in f.Report, b \in f.Report :
      /\ a.PRODUCT_LINE = b.PRODUCT_LINE
      /\ a.Program_Name # b.Program_Name
      /\ a.SBP_Coverage_Sales > 0
      /\ SumField(f.Report, "SBP_Coverage_Sales") =
            2 * SumField(df_sbp_of(df_final[f.region]), NET_TOTAL(f.region))

\* the side-channel records of product line pl whose distributor is partner
SideChannelOf(partner, pl) ==
    {r \in df_rcs : r.PRODUCT_LINE = pl /\ r.DISTRIBUTOR_PARTY_ID = partner}

\* C26: in the report of distributor partner P, the LA Sales of each product
\* line is the net total of the side-channel records of that product line
\* whose distributor is P, and Total Exclusions holds no more than that
\* next to the other and OEM exclusions.
C26_PartnerLASalesOwnRecords ==
    \A f \in partner_files : \A row \in f.DSO_DataSheet :
      LET own == SumField(SideChannelOf(f.partner, row.PRODUCT_LINE),
                          NET_TOTAL(f.region))
      IN /\ row.LA_Sales = own
         /\ row.Total_Exclusions =
              row.Other_Exclusions_Net_Sales + row.OEM_Exclusions + own

\* a partner report written with a row whose LA Sales holds the net total
\* of a side-channel record of another distributor
C26_Witness ==
    \E f \in partner_files : \E row \in f.DSO_DataSheet :
      \E r \in df_rcs :
        /\ r.PRODUCT_LINE = row.PRODUCT_LINE
        /\ r.DISTRIBUTOR_PARTY_ID # f.partner
        /\ SideChannelOf(f.partner, row.PRODUCT_LINE) = {}
        /\ row.LA_Sales = r[NET_TOTAL(f.region)]
        /\ row.LA_Sales > 0

\* the first day of fiscal month YYYYMM lies in the fiscal quarter of day
InQuarterWindow(fiscal_month, day) ==
    /\ FiscalCalendar(day).start_date <= fiscal_month * 100 + 1
    /\ fiscal_month * 100 + 1 <= FiscalCalendar(day).end_date

\* C27: every record kept by prepare_monthly_data, and so every record summed
\* into a month column, has its fiscal month inside the window
\* [start_date, end_date] of the fiscal quarter of the run date; a record of
\* the same quarter label in another fiscal year is not kept.
C27_KeptRecordsInQuarterWindow ==
    \A g \in Regions : \A r \in df_experiment[g] :
      InQuarterWindow(r.FISCAL_MONTH, today)

\* a region report written whose month column sums a record of the quarter
\* label of the run date, one fiscal year earlier
C27_Witness ==
    \E f \in region_files : \E r \in df_experiment[f.region] : \E row \in f.Report :
      /\ r.fiscal_quarter = FiscalCalendar(today).current_fq
      /\ r.FISCAL_MONTH * 100 + 1 < FiscalCalendar(today).start_date
      /\ r.month_sales_col \in DOMAIN row.sales
      /\ row.PRODUCT_LINE = r.PRODUCT_LINE
      /\ row.sales[r.month_sales_col] >= r[NDP_TOTAL(f.region)]
      /\ r[NDP_TOTAL(f.region)] > 0

\* C28: after a call of standardize_column_names, every canonical field for
\* which find_column_match returned an input column is a column of the
\* standardized dataset and has its entry in the rename map: no two fields
\* resolve to one input column so that one of them loses its mapping.
C28_MatchedFieldsAreColumns ==
    calls >= 1 =>
      \A i \in DOMAIN MainFields :
        matched_col[i] # NA =>
          /\ MainFields[i] \in Range(df_standardized)
          /\ \E c \in DOMAIN rename_map : rename_map[c] = MainFields[i]

\* a first call in which two canonical fields matched the same input column:
\* the later field owns the rename-map entry and the earlier field is no
\* column of the standardized dataset
C28_Witness ==
    /\ calls = 1
    /\ \E i \in DOMAIN MainFields, j \in DOMAIN MainFields :
         /\ i < j
         /\ matched_col[i] # NA
         /\ matched_col[i] = matched_col[j]
         /\ rename_map[matched_col[i]] = MainFields[j]
         /\ MainFields[j] \in Range(df_standardized)
         /\ MainFields[i] \notin Range(df_standardized)

C30_AuditFieldsAreConstant ==
    \A g \in Regions :
      calc_out[g].done =>
        /\ calc_out[g].Diff = 0
        /\ calc_out[g].Match_1 = 0
        /\ calc_out[g].Match = calc_row[NET_TOTAL(g)]
        /\ calc_out[g].Updated_upfront =
             calc_row[NDP_TOTAL(g)] - calc_row[BACKEND_DISCOUNT_AMT(g)]
               - calc_row[NET_TOTAL(g)]

\* the US formulas ran on a row that is not consistent in USD: its Delta is
\* not zero, its Updated_upfront is not its upfront discount, and Diff and
\* Match_1 are zero all the same
C30_Witness ==
    /\ calc_out["US"].done
    /\ ~Consistent("US", calc_row)
    /\ calc_out["US"].Delta # 0
    /\ calc_out["US"].Updated_upfront # calc_row.UPFRONT_DISCOUNT_AMT_USD
    /\ calc_row.UPFRONT_DISCOUNT_AMT_USD # 0
    /\ calc_out["US"].Diff = 0
    /\ calc_out["US"].Match_1 = 0

====
